---- MODULE Spec2Model ----
(***************************************************************************)
(* Model of mfbatra/model-router: constraint filtering and ranking of      *)
(* models (ModelSelector, RoutingEngine), the provider factory with its    *)
(* instance cache (ProviderFactory), and the router facade that walks the  *)
(* ordered candidate list with a retry budget (Router).                    *)
(*                                                                         *)
(* Numbers: prices are in thousandths of a currency unit (0.06 -> 60),     *)
(* scores are fixed point with SCALE = 1.0, min_quality and complexity are *)
(* in hundredths.  An Optional value is None (<<>>) or Some(v) (<<v>>).    *)
(***************************************************************************)
EXTENDS Integers, Sequences, FiniteSets, TLC

VARIABLES
    \* ---- routing (ModelSelector / RoutingEngine) ----
    catalog,            \* RoutingEngine._models: sequence of ModelConfig objects
    strategy,           \* ModelSelector._strategy (name of the injected strategy)
    constraints,        \* RoutingConstraints of the current call, or "None"
    prompt,             \* Request.prompt of the current call (feature record)
    decision,           \* last RoutingDecision constructed, or "None"
    decisionSource,     \* which constructor call site produced `decision`
    \* ---- router facade ----
    config,             \* Router._config (RouterConfig value)
    provider_configs,   \* Router._provider_configs: provider key -> api_key
    forced_provider,    \* Router._forced_provider
    setterResult,       \* outcome of the last default_provider assignment
    configureResult,    \* outcome of the last configure_fallback call
    middlewares,        \* MiddlewareChain._middlewares (Router._middleware)
    tracker,            \* whether Router._tracker is set
    mwlog,              \* hooks and handler run by the running call, in order
    tracks,             \* tracker.track calls made by the running call
    pc,                 \* position of the running call: idle, walk, done, assigned
    provider_attempts,  \* local list of (model name, provider key) pairs
    unforced_attempts,  \* the same list before the forced-provider reordering
    idx,                \* loop position in provider_attempts (1-based, next to visit)
    attempts,           \* local attempts counter
    last_error,         \* local last_error
    invoked,            \* log of provider.complete calls of the running call
    created,            \* log of factory.create calls
    response,           \* Response returned by the last call, if any
    cause,              \* __cause__ of the error the last call raised, if any
    outcome,            \* how the last call ended
    \* ---- provider factory ----
    factoryKind,        \* which factory object the router was given
    registry,           \* ProviderFactory._registry
    cache,              \* ProviderFactory._cache: set of cached instances
    clientCalls,        \* number of http_client_factory invocations
    \* ---- provider adapter ----
    adapter,            \* one BaseProvider and its running execute_request
    \* ---- threads and middleware objects ----
    callers,            \* per thread: its position inside ProviderFactory.create
    cachemw             \* the chain's CachingMiddleware objects, and handler runs so far

routingVars == <<catalog, strategy, constraints, prompt, decision, decisionSource>>
routerVars  == <<config, provider_configs, forced_provider, setterResult,
                 configureResult, middlewares, tracker, mwlog, tracks, pc,
                 provider_attempts, unforced_attempts, idx, attempts, last_error,
                 invoked, created, response, cause, outcome>>
factoryVars == <<factoryKind, registry, cache, clientCalls>>
providerVars == <<adapter>>
objectVars == <<callers, cachemw>>
vars == <<routingVars, routerVars, factoryVars, providerVars, objectVars>>

\* Optional[T]: None or Some(v); Val reads the value of a Some.
None == <<>>
Some(v) == <<v>>
Val(o) == o[1]

\* ------------------------------------------------------------------------
\* Bounds of the exploration
\* ------------------------------------------------------------------------
MaxCatalog   == 3    \* longest catalog handed to select
MaxRetries   == 2    \* largest RouterConfig.max_retries explored
MaxFallback  == 2    \* longest fallback_models list explored
MaxCreates   == 3    \* direct factory.create calls per behaviour
MaxRegister  == 1    \* register_provider calls per behaviour
MaxProviderRetries == 3  \* largest ProviderConfig.max_retries explored
MaxChain     == 3    \* longest middleware chain explored
MaxThreads   == 2    \* threads calling factory.create at the same time
MaxExecutes  == 3    \* handler runs per behaviour of a chain called directly
MaxAdapterRetries == 1   \* largest ProviderConfig.max_retries of a router's providers

\* ------------------------------------------------------------------------
\* Domain values (domain/models.py)
\* ------------------------------------------------------------------------
Provider == {"openai", "anthropic", "google", "custom"}

RoutingStrategy == {"cost_biased", "quality_biased", "balanced", "latency_biased"}

\* A ModelConfig object.  `oid` is the object's identity (what `is` compares);
\* the other four fields are its value (what == compares).
ModelConfig(oid, provider, model_name, pricing, capabilities) ==
    [oid |-> oid, provider |-> provider, model_name |-> model_name,
     pricing |-> pricing, capabilities |-> capabilities]

\* Value equality of two frozen dataclasses.
ModelEq(a, b) ==
    /\ a.provider = b.provider
    /\ a.model_name = b.model_name
    /\ a.pricing = b.pricing
    /\ a.capabilities = b.capabilities

DEFAULT_CHAT_MODEL ==
    ModelConfig(1, "openai", "gpt-4", 60, {"chat", "reasoning", "code"})
DEFAULT_ANTHROPIC_MODEL ==
    ModelConfig(2, "anthropic", "claude-3-opus", 15, {"chat", "reasoning", "code"})
DEFAULT_GEMINI_MODEL ==
    ModelConfig(3, "google", "gemini-1.5-pro", 10, {"chat", "vision", "reasoning"})

\* Further catalog entries a custom router can be wired with.
Gpt35Model   == ModelConfig(4, "openai", "gpt-3.5", 2, {"chat", "streaming"})
MysteryModel == ModelConfig(5, "custom", "mystery-1", 50, {"batch", "realtime"})
\* A second object that is value-equal to DEFAULT_CHAT_MODEL.
Gpt4Twin     == ModelConfig(6, "openai", "gpt-4", 60, {"chat", "reasoning", "code"})

ModelPool == {DEFAULT_CHAT_MODEL, DEFAULT_ANTHROPIC_MODEL, DEFAULT_GEMINI_MODEL,
              Gpt35Model, MysteryModel, Gpt4Twin}


\* ------------------------------------------------------------------------
\* Generic sequence helpers
\* ------------------------------------------------------------------------
Range(s) == {s[i] : i \in DOMAIN s}

\* Sequences over S without repeated elements, of length lo..hi.
InjectiveSeqs(S, lo, hi) ==
    UNION {{s \in [1..n -> S] : \A i, j \in 1..n : i # j => s[i] # s[j]} : n \in lo..hi}

\* All sequences over S of length 0..hi.
SeqsUpTo(S, hi) == UNION {[1..n -> S] : n \in 0..hi}

\* The empty mapping.
EmptyMap == [k \in {} |-> None]

Min(a, b) == IF a < b THEN a ELSE b
Max(a, b) == IF a > b THEN a ELSE b

\* ------------------------------------------------------------------------
\* ComplexityEstimator (routing/estimator.py); values in hundredths
\* ------------------------------------------------------------------------
\* A prompt is described by what the feature extractors read from it.
Prompt(chars, stripped, fence, code, reasoning, terms) ==
    [chars |-> chars, stripped |-> stripped, fence |-> fence, code |-> code,
     reasoning |-> reasoning, terms |-> terms]

BlankPrompt == Prompt(3, 0, FALSE, 0, 0, 0)      \* "   "
HelloPrompt == Prompt(5, 5, FALSE, 0, 0, 0)      \* "hello"
HardPrompt  == Prompt(150, 150, FALSE, 4, 1, 3)  \* code + reasoning + technical terms

Prompts == {BlankPrompt, HelloPrompt, HardPrompt}

clamp100(v) == Max(0, Min(v, 100))

estimate(p) ==
    IF p.stripped = 0 THEN 0
    ELSE LET length    == clamp100((p.chars * 100) \div 300)
             codeblock == IF p.fence THEN 100 ELSE clamp100((p.code * 100) \div 8)
             reasoning == clamp100((p.reasoning * 100) \div 2)
             technical == clamp100((p.terms * 100) \div 3)
         IN  clamp100((length + codeblock + reasoning + technical) \div 4)

\* Variant of the Request validator that accepts every prompt.
RequestValid_Anything(p) == TRUE

\* Request construction (domain/models.py): a blank prompt is rejected.
RequestValid(p) == p.stripped > 0

\* ------------------------------------------------------------------------
\* RoutingConstraints (domain/models.py)
\* ------------------------------------------------------------------------
RoutingConstraints(max_cost, max_latency, min_quality, strat) ==
    [max_cost |-> max_cost, max_latency |-> max_latency,
     min_quality |-> min_quality, strategy |-> strat]

\* Field(gt=0) on max_cost / max_latency and validate_constraints.
ConstraintsValid(c) ==
    /\ c.max_cost = None \/ Val(c.max_cost) > 0
    /\ c.max_latency = None \/ Val(c.max_latency) > 0
    /\ c.min_quality = None \/ (0 <= Val(c.min_quality) /\ Val(c.min_quality) <= 100)
    /\ ~(c.max_cost = None /\ c.max_latency = None)

\* ------------------------------------------------------------------------
\* Strategies (routing/strategies); scores are fixed point, SCALE = 1.0
\* ------------------------------------------------------------------------
SCALE == 100 * 100

clamp(v) == Max(0, Min(v, SCALE))

OverBudget(model, c) == c.max_cost # None /\ model.pricing > Val(c.max_cost)

\* CostOptimizedStrategy.score_model: 1/(1+price*10), x0.2 over budget,
\* reduced by 0.15*complexity.
CostScore(model, complexity, c) ==
    LET base0   == (SCALE * 100) \div (100 + model.pricing)
        base    == IF OverBudget(model, c) THEN base0 \div 5 ELSE base0
    IN  clamp((base * (10000 - 15 * clamp100(complexity))) \div 10000)

\* QualityOptimizedStrategy.WEIGHTS, in hundredths.
QualityStrategyWeight(cap) ==
    CASE cap = "reasoning" -> 40
      [] cap = "code"      -> 30
      [] cap = "vision"    -> 15
      [] cap = "chat"      -> 10
      [] cap = "analysis"  -> 5
      [] OTHER             -> 0

\* sum(WEIGHTS.get(cap, 0.0) for cap in capabilities)
RECURSIVE QualityStrategyRaw(_)
QualityStrategyRaw(caps) ==
    IF caps = {} THEN 0
    ELSE LET x == CHOOSE y \in caps : TRUE
         IN  QualityStrategyWeight(x) + QualityStrategyRaw(caps \ {x})

\* QualityOptimizedStrategy.score_model.
QualityScore(model, complexity, c) ==
    LET cap    == (SCALE * QualityStrategyRaw(model.capabilities)) \div 100
        s0     == (cap * (100 + clamp100(complexity))) \div 200
        s1     == IF OverBudget(model, c) THEN (s0 * 9) \div 10 ELSE s0
        s2     == IF c.min_quality # None
                  THEN s1 + (SCALE * clamp100(Val(c.min_quality))) \div 1000
                  ELSE s1
    IN  clamp(s2)

Strategies == {"cost_optimized", "quality_optimized"}

\* IRoutingStrategy.score_model, dispatched on the injected strategy object.
score_model(strat, model, complexity, c) ==
    IF strat = "cost_optimized" THEN CostScore(model, complexity, c)
    ELSE QualityScore(model, complexity, c)

\* ------------------------------------------------------------------------
\* RoutingDecision (domain/models.py)
\* ------------------------------------------------------------------------
\* Variant of the validator that forgets the membership test.
ensure_reasoning_NoMembershipTest(selected, reasoning, alternatives) ==
    reasoning.text # <<>>

\* The model validator: TRUE when construction is accepted.
ensure_reasoning(selected, reasoning, alternatives) ==
    /\ reasoning.text # <<>>
    /\ ~ \E i \in DOMAIN alternatives : ModelEq(selected, alternatives[i])

\* Result of a call that returns a RoutingDecision or raises.
Returned(d) == [kind |-> "decision", decision |-> Some(d)]
Raised(err) == [kind |-> err, decision |-> None]

\* RoutingDecision(...): the frozen value, or the validation error.
RoutingDecision(selected, cost, reasoning, alternatives) ==
    IF cost >= 0 /\ ensure_reasoning(selected, reasoning, alternatives)
    THEN Returned([selected_model |-> selected, estimated_cost |-> cost,
                   reasoning |-> reasoning,
                   alternatives_considered |-> alternatives])
    ELSE Raised("ValidationError")

\* ------------------------------------------------------------------------
\* ModelSelector (routing/selector.py)
\* ------------------------------------------------------------------------
\* QUALITY_WEIGHTS, in tenths; their sum is QUALITY_TOTAL.
QualityWeight(cap) ==
    CASE cap = "reasoning" -> 10
      [] cap = "code"      -> 8
      [] cap = "analysis"  -> 6
      [] cap = "vision"    -> 5
      [] cap = "chat"      -> 4
      [] OTHER             -> 0

LOW_LATENCY_TAGS == {"low-latency", "realtime", "streaming"}

TIGHT_LATENCY == 200

RECURSIVE QualityRaw(_)
QualityRaw(caps) ==
    IF caps = {} THEN 0
    ELSE LET x == CHOOSE y \in caps : TRUE
         IN  QualityWeight(x) + QualityRaw(caps \ {x})

\* total = sum(QUALITY_WEIGHTS.values())
QUALITY_TOTAL == QualityRaw({"reasoning", "code", "analysis", "vision", "chat"})

\* _quality_score(model) < min_quality, with min_quality in hundredths:
\* raw/total < q/100.
QualityBelow(model, q) == QualityRaw(model.capabilities) * 100 < q * QUALITY_TOTAL

_supports_low_latency(model) == model.capabilities \cap LOW_LATENCY_TAGS # {}

\* Variant of the filter that forgets the tight-latency test.
PassesConstraints_NoLatencyTest(model, c) ==
    /\ ~(c.max_cost # None /\ model.pricing > Val(c.max_cost))
    /\ ~(c.min_quality # None /\ QualityBelow(model, Val(c.min_quality)))

\* One pass of the loop body of _filter_by_constraints: TRUE when kept.
PassesConstraints(model, c) ==
    /\ ~(c.max_cost # None /\ model.pricing > Val(c.max_cost))
    /\ ~(c.min_quality # None /\ QualityBelow(model, Val(c.min_quality)))
    /\ ~(/\ c.max_latency # None
         /\ Val(c.max_latency) <= TIGHT_LATENCY
         /\ ~_supports_low_latency(model))

_filter_by_constraints(models, c) ==
    LET Keep(model) == PassesConstraints(model, c) IN SelectSeq(models, Keep)

\* _score_models: list of (model, score) pairs in input order.
_score_models(strat, models, complexity, c) ==
    [i \in DOMAIN models |->
        <<models[i], score_model(strat, models[i], complexity, c)>>]

\* list.sort(key=score, reverse=True): stable, equal scores keep their order.
\* Variant of the sort that puts a later item before earlier items of the
\* same score.
RECURSIVE InsertDesc_TiesFirst(_, _)
InsertDesc_TiesFirst(sorted, item) ==
    IF sorted = <<>> THEN <<item>>
    ELSE IF item[2] >= Head(sorted)[2] THEN <<item>> \o sorted
         ELSE <<Head(sorted)>> \o InsertDesc_TiesFirst(Tail(sorted), item)

RECURSIVE InsertDesc(_, _)
InsertDesc(sorted, item) ==
    IF sorted = <<>> THEN <<item>>
    ELSE IF item[2] > Head(sorted)[2] THEN <<item>> \o sorted
         ELSE <<Head(sorted)>> \o InsertDesc(Tail(sorted), item)

RECURSIVE SortDesc(_)
SortDesc(scored) ==
    IF scored = <<>> THEN <<>>
    ELSE InsertDesc(SortDesc(SubSeq(scored, 1, Len(scored) - 1)), scored[Len(scored)])

\* alternatives of _create_decision: every scored model that is not the
\* selected object (identity, not value).
Alternatives(selected, scored) ==
    LET NotSelected(item) == item[1].oid # selected.oid
        rest == SelectSeq(scored, NotSelected)
    IN  [i \in DOMAIN rest |-> rest[i][1]]

\* _build_reasoning: strategy name, selected model, up to two next-best names.
_build_reasoning(strat, selected, scored) ==
    [text |-> <<strat, selected.model_name>> \o
              [i \in 1..Min(2, Len(scored) - 1) |-> scored[i + 1][1].model_name],
     complexity |-> None]

_create_decision(strat, selected, scored) ==
    RoutingDecision(selected, selected.pricing,
                    _build_reasoning(strat, selected, scored),
                    Alternatives(selected, scored))

\* Variant of select that falls back to the unfiltered catalog when the
\* filter leaves nothing.
select_DefaultOnEmpty(strat, available_models, p, c) ==
    LET eligible == _filter_by_constraints(available_models, c)
        pool == IF eligible = <<>> THEN available_models ELSE eligible
    IN  IF pool = <<>> THEN Raised("NoSuitableModelError")
        ELSE LET complexity == estimate(p)
                 scored == SortDesc(_score_models(strat, pool, complexity, c))
             IN  _create_decision(strat, scored[1][1], scored)

\* ModelSelector.select
select(strat, available_models, p, c) ==
    LET eligible == _filter_by_constraints(available_models, c)
    IN  IF eligible = <<>> THEN Raised("NoSuitableModelError")
        ELSE LET complexity == estimate(p)
                 scored == SortDesc(_score_models(strat, eligible, complexity, c))
             IN  _create_decision(strat, scored[1][1], scored)

\* ------------------------------------------------------------------------
\* RoutingEngine (routing/engine.py)
\* ------------------------------------------------------------------------
route(strat, models, p, c) ==
    LET complexity == estimate(p)
        r == select(strat, models, p, c)
    IN  IF r.kind # "decision" THEN r
        ELSE LET d == Val(r.decision)
             IN  RoutingDecision(d.selected_model, d.estimated_cost,
                                 [d.reasoning EXCEPT !.complexity = Some(complexity)],
                                 d.alternatives_considered)

\* ------------------------------------------------------------------------
\* ProviderFactory (providers/factory.py)
\* ------------------------------------------------------------------------
\* Model names that occur in catalogs, fallback lists and create calls.
ModelNames == {"gpt-4", "gpt-4o", "gpt-3.5", "claude-3-opus", "gemini-1.5-pro",
               "custom-model-x", "mystery-1"}

\* A compiled pattern, given by the model names its search() accepts.
Pattern(regex, accepts) == [regex |-> regex, accepts |-> accepts]

OpenAIPattern    == Pattern("^(gpt|text-davinci|o1)", {"gpt-4", "gpt-4o", "gpt-3.5"})
AnthropicPattern == Pattern("^(claude)", {"claude-3-opus"})
GooglePattern    == Pattern("^(gemini|palm)", {"gemini-1.5-pro"})
\* Patterns registered at run time.
CustomPattern    == Pattern("^custom-", {"custom-model-x"})
Gpt4Pattern      == Pattern("^gpt-4", {"gpt-4", "gpt-4o"})

Rule(pattern, cls) == [pattern |-> pattern, cls |-> cls]

\* _register_defaults
DefaultRegistry ==
    <<Rule(OpenAIPattern, "OpenAIProvider"),
      Rule(AnthropicPattern, "AnthropicProvider"),
      Rule(GooglePattern, "GoogleProvider")>>

\* Variant of register_provider that puts the new rule in front.
register_provider_Prepend(reg, pattern, cls) == <<Rule(pattern, cls)>> \o reg

\* register_provider: append at the end.
register_provider(reg, pattern, cls) == Append(reg, Rule(pattern, cls))

\* Index of the first rule whose pattern accepts the name, 0 when none does.
FirstMatch(reg, model_name) ==
    LET hits == {i \in DOMAIN reg : model_name \in reg[i].pattern.accepts}
    IN  IF hits = {} THEN 0 ELSE CHOOSE i \in hits : \A j \in hits : i <= j

\* _detect_provider: Some(class) or None (ProviderError).
_detect_provider(reg, model_name) ==
    LET i == FirstMatch(reg, model_name)
    IN  IF i = 0 THEN None ELSE Some(reg[i].cls)

\* Variant that keys the cache by provider class alone.
CacheKey_ClassOnly(cls, api_key) == <<cls, "">>

\* cache_key = (provider_cls, config.api_key)
CacheKey(cls, api_key) == <<cls, api_key>>

\* A provider instance: `id` is its identity, model_name the name held by
\* the model config it was constructed with (_build_model_config).
Instance(id, cls, api_key, model_name) ==
    [id |-> id, cls |-> cls, api_key |-> api_key, model_name |-> model_name]

\* ProviderFactory.create on the factory state (reg, cch, calls): the
\* result kind, the instance handed out, and the factory state afterwards.
create(reg, cch, calls, model_name, api_key) ==
    LET detected == _detect_provider(reg, model_name) IN
    IF detected = None
    THEN [kind |-> "ProviderError", instance |-> None, cls |-> None,
          cache |-> cch, clientCalls |-> calls, hit |-> FALSE]
    ELSE LET cls == Val(detected)
             key == CacheKey(cls, api_key)
         IN  IF key \in DOMAIN cch
             THEN [kind |-> "provider", instance |-> Some(cch[key]), cls |-> detected,
                   cache |-> cch, clientCalls |-> calls, hit |-> TRUE]
             ELSE LET inst == Instance(calls + 1, cls, api_key, model_name)
                  IN  [kind |-> "provider", instance |-> Some(inst), cls |-> detected,
                       cache |-> [k \in DOMAIN cch \cup {key} |->
                                     IF k = key THEN inst ELSE cch[k]],
                       clientCalls |-> calls + 1, hit |-> FALSE]

\* ProviderFactory.__init__
FactoryIdle ==
    /\ factoryKind = "ProviderFactory"
    /\ registry = DefaultRegistry
    /\ cache = EmptyMap
    /\ clientCalls = 0

\* Threads that may be inside ProviderFactory.create at the same time.
Threads == 1..MaxThreads

\* A thread that has not called create: no arguments, no local variables.
CallerIdle ==
    [pc |-> "idle", model_name |-> None, api_key |-> None, cls |-> None,
     instance |-> None, result |-> None]

CallersIdle == callers = [t \in Threads |-> CallerIdle]

\* ------------------------------------------------------------------------
\* Middleware (core/middleware.py)
\* ------------------------------------------------------------------------
MiddlewareKinds == {"ValidationMiddleware", "LoggingMiddleware", "AnalyticsMiddleware",
                    "CachingMiddleware", "_RecordingMiddleware"}

\* ValidationMiddleware: longest prompt accepted.
MAX_PROMPT_CHARS == 20000

\* middleware.process_request(request): "ok", or the error it raises.
process_request(mw, p) ==
    IF mw = "ValidationMiddleware" /\ (p.stripped = 0 \/ p.chars > MAX_PROMPT_CHARS)
    THEN "ValueError" ELSE "ok"

\* One entry of the call log: which hook, of which chain position.
Hook(name, i, mw) == <<name, i, mw>>
HandlerRun == Hook("handler", 0, "handler")

\* for middleware in self._middlewares: request = middleware.process_request(request)
\* from position i on; stops at the first hook that raises.
RECURSIVE RequestPhase(_, _, _, _)
RequestPhase(mws, p, i, log) ==
    IF i > Len(mws) THEN [log |-> log, raised |-> None]
    ELSE LET called == Append(log, Hook("process_request", i, mws[i])) IN
         IF process_request(mws[i], p) # "ok"
         THEN [log |-> called, raised |-> Some(process_request(mws[i], p))]
         ELSE RequestPhase(mws, p, i + 1, called)

\* Variant of reversed() that keeps the registration order.
reversed_Forward(n) == [k \in 1..n |-> k]

\* reversed(self._middlewares), as the positions visited.
reversed(n) == [k \in 1..n |-> n + 1 - k]

\* for middleware in reversed(self._middlewares): process_response(response)
ResponsePhase(mws) ==
    LET order == reversed(Len(mws))
    IN  [k \in 1..Len(mws) |-> Hook("process_response", order[k], mws[order[k]])]

\* track calls made by the response hooks: AnalyticsMiddleware forwards the
\* request its process_request stored.
ChainTracks(mws) ==
    Cardinality({i \in DOMAIN mws : mws[i] = "AnalyticsMiddleware"})

\* MiddlewareChain.execute(request, handler) with a handler that returns
\* or raises.
execute(mws, p, handlerReturns) ==
    LET req == RequestPhase(mws, p, 1, <<>>) IN
    IF req.raised # None
    THEN [kind |-> Val(req.raised), log |-> req.log, tracks |-> 0]
    ELSE IF ~handlerReturns
    THEN [kind |-> "HandlerError", log |-> Append(req.log, HandlerRun), tracks |-> 0]
    ELSE [kind |-> "response",
          log |-> Append(req.log, HandlerRun) \o ResponsePhase(mws),
          tracks |-> ChainTracks(mws)]

\* Router.complete, lines 75-76: the router's own track call.
RouterTracks(hasTracker, cfg) == IF hasTracker /\ cfg.enable_analytics THEN 1 ELSE 0

\* Router.__init__ with no middleware and no tracker.
ChainIdle ==
    /\ middlewares = <<>>
    /\ tracker = FALSE
    /\ mwlog = <<>>
    /\ tracks = 0

\* ------------------------------------------------------------------------
\* BaseProvider (providers/base.py)
\* ------------------------------------------------------------------------
\* What one _make_api_call can do: return a Response, or raise a rate-limit
\* error, an unavailable error, another ProviderError, or any other exception.
ApiOutcomes == {"ok", "ProviderRateLimitError", "ProviderUnavailableError",
                "ProviderError", "Exception"}

Transient == {"ProviderRateLimitError", "ProviderUnavailableError"}

\* math.pow(2, attempt)
RECURSIVE Pow2(_)
Pow2(n) == IF n = 0 THEN 1 ELSE 2 * Pow2(n - 1)

\* Variant of the delay that sleeps the same time before every retry.
_backoff_delay_Constant(backoff_factor, attempt) == backoff_factor

\* _backoff_delay: backoff_factor * 2^attempt, in tenths of a second.
_backoff_delay(backoff_factor, attempt) == backoff_factor * Pow2(attempt)

\* Variant of the try/except that treats a generic ProviderError as
\* transient.
Disposition_RetryGeneric(attempt, max_retries, result) ==
    CASE result = "ok" -> "return"
      [] result \in Transient \cup {"ProviderError"} ->
            IF attempt = max_retries THEN "raise" ELSE "retry"
      [] OTHER -> "wrap"

\* Variant of the try/except that goes on after a successful call.
Disposition_RetryAfterSuccess(attempt, max_retries, result) ==
    CASE result = "ok" -> IF attempt = max_retries THEN "return" ELSE "retry"
      [] result \in Transient -> IF attempt = max_retries THEN "raise" ELSE "retry"
      [] result = "ProviderError" -> "raise"
      [] OTHER -> "wrap"

\* Variant of the try/except that never gives up on a transient error.
Disposition_NeverGivesUp(attempt, max_retries, result) ==
    CASE result = "ok" -> "return"
      [] result \in Transient -> "retry"
      [] result = "ProviderError" -> "raise"
      [] OTHER -> "wrap"

\* The try/except of one loop iteration (lines 81-110): what happens after
\* a raw call that ended in `result` on iteration `attempt`.
Disposition(attempt, max_retries, result) ==
    CASE result = "ok" -> "return"
      [] result \in Transient -> IF attempt = max_retries THEN "raise" ELSE "retry"
      [] result = "ProviderError" -> "raise"
      [] OTHER -> "wrap"

\* Every way one execute_request can go from loop iteration `attempt` on:
\* the number of raw API calls it still makes, and whether it returns a
\* response or raises.
RECURSIVE Runs(_, _)
Runs(attempt, max_retries) ==
    IF attempt > max_retries THEN {[api_calls |-> 0, ok |-> FALSE]}
    ELSE UNION {
        LET what == Disposition(attempt, max_retries, raw) IN
        CASE what = "return" -> {[api_calls |-> 1, ok |-> TRUE]}
          [] what = "retry" ->
                {[api_calls |-> r.api_calls + 1, ok |-> r.ok] :
                    r \in Runs(attempt + 1, max_retries)}
          [] OTHER -> {[api_calls |-> 1, ok |-> FALSE]}
        : raw \in ApiOutcomes}

\* A provider with ProviderConfig.max_retries = max_retries, no call running.
\* ProviderConfig.backoff_factor when the caller gives none (0.5 s), in
\* tenths of a second.
DefaultBackoffFactor == 5

AdapterIdle(max_retries) ==
    [max_retries |-> max_retries, backoff_factor |-> DefaultBackoffFactor,
     pc |-> "idle", attempt |-> 0,
     calls |-> <<>>, delays |-> <<>>, result |-> "none"]

\* ProviderConfig.max_retries when the caller gives none.
DefaultProviderRetries == 3

ProviderIdle == adapter = AdapterIdle(DefaultProviderRetries)

\* A CachingMiddleware constructed over an empty dict.  cache_hit and
\* cached_response are what its process_request put into the metadata of
\* the request now passing through.
NewCachingMiddleware ==
    [cache |-> EmptyMap, current_key |-> None, cache_hit |-> FALSE,
     cached_response |-> None]

\* CachingMiddleware.process_request for a request with the given key.
CachingRequest(c, key) ==
    [c EXCEPT !.current_key = Some(key),
              !.cache_hit = key \in DOMAIN c.cache,
              !.cached_response = IF key \in DOMAIN c.cache THEN Some(c.cache[key])
                                  ELSE None]

\* Variant of process_response that keeps an entry the cache already holds.
CachingResponse_KeepFirst(c, resp) ==
    IF c.current_key = None THEN c
    ELSE LET key == Val(c.current_key) IN
         [c EXCEPT !.cache = [k \in DOMAIN c.cache \cup {key} |->
                                 IF k \in DOMAIN c.cache THEN c.cache[k] ELSE resp],
                   !.current_key = None]

\* CachingMiddleware.process_response.
CachingResponse(c, resp) ==
    IF c.current_key = None THEN c
    ELSE LET key == Val(c.current_key) IN
         [c EXCEPT !.cache = [k \in DOMAIN c.cache \cup {key} |->
                                 IF k = key THEN resp ELSE c.cache[k]],
                   !.current_key = None]

\* The Response the handler builds on its n-th run.
HandlerResponse(n) == [model_used |-> "handler", serial |-> n]

\* The CachingMiddleware objects after the request phase reached `reached`
\* positions of the chain (key_fn is the default: the prompt).
AfterRequestPhase(objects, mws, p, reached) ==
    [k \in DOMAIN objects |->
        IF k \in DOMAIN mws /\ k <= reached /\ mws[k] = "CachingMiddleware"
        THEN CachingRequest(objects[k], p)
        ELSE [objects[k] EXCEPT !.cache_hit = FALSE, !.cached_response = None]]

\* ... and after the response phase handed `resp` to every middleware.
AfterResponsePhase(objects, mws, resp) ==
    [k \in DOMAIN objects |->
        IF k \in DOMAIN mws /\ mws[k] = "CachingMiddleware"
        THEN CachingResponse(objects[k], resp)
        ELSE objects[k]]

CachingIdle ==
    cachemw = [objects |-> [k \in 1..MaxChain |-> NewCachingMiddleware], handled |-> 0]

\* No thread is inside the factory and no middleware has cached anything.
ObjectsIdle == CallersIdle /\ CachingIdle

\* ------------------------------------------------------------------------
\* Values the other components hold while one component is explored
\* ------------------------------------------------------------------------
\* RouterConfig (core/config.py); only the fields the router reads.
RouterConfig(default_strategy, enable_analytics, fallback_models, max_retries) ==
    [default_strategy |-> default_strategy, enable_analytics |-> enable_analytics,
     fallback_models |-> fallback_models, max_retries |-> max_retries]

DefaultMaxRetries == 3

\* Variant of the update that builds a fresh RouterConfig from the list alone.
replace_FromDefaults(cfg, models) ==
    [new |-> RouterConfig("balanced", TRUE, models, DefaultMaxRetries), previous |-> cfg]

\* dataclasses.replace(cfg, fallback_models=list(models)) on the frozen
\* RouterConfig: a new object; the one passed in is left as it was.
replace(cfg, models) ==
    [new |-> [cfg EXCEPT !.fallback_models = models], previous |-> cfg]

DefaultRouterConfig == RouterConfig("balanced", TRUE, <<>>, DefaultMaxRetries)

RoutingIdle ==
    /\ catalog = <<DEFAULT_CHAT_MODEL>>
    /\ strategy = "cost_optimized"
    /\ constraints = None
    /\ prompt = None
    /\ decision = None
    /\ decisionSource = "none"

RouterIdle ==
    /\ config = DefaultRouterConfig
    /\ provider_configs = EmptyMap
    /\ forced_provider = None
    /\ setterResult = None
    /\ configureResult = None
    /\ pc = "idle"
    /\ provider_attempts = <<>>
    /\ unforced_attempts = <<>>
    /\ idx = 1
    /\ attempts = 0
    /\ last_error = None
    /\ invoked = <<>>
    /\ created = <<>>
    /\ response = None
    /\ cause = None
    /\ outcome = "none"

\* ------------------------------------------------------------------------
\* SpecSelect: select, route and direct RoutingDecision construction,
\* applied to catalogs, constraints and prompts drawn from bounded sets
\* ------------------------------------------------------------------------
MaxCostChoices    == {None, Some(12), Some(60)}
MaxLatencyChoices == {None, Some(100), Some(30000)}
MinQualityChoices == {None, Some(50), Some(100)}

\* Every RoutingConstraints value that can exist over these choices.
ConstraintChoices ==
    {c \in [max_cost : MaxCostChoices, max_latency : MaxLatencyChoices,
            min_quality : MinQualityChoices, strategy : {"balanced"}] :
        ConstraintsValid(c)}

\* Lists of distinct ModelConfig objects (two of them may be value-equal).
Catalogs == InjectiveSeqs(ModelPool, 0, MaxCatalog)

\* selector.select(catalog, request, constraints)
Select ==
    /\ pc = "idle"
    /\ LET r == select(strategy, catalog, Val(prompt), Val(constraints)) IN
        /\ decision' = r.decision
        /\ outcome' = r.kind
    /\ decisionSource' = "select"
    /\ pc' = "done"
    /\ UNCHANGED <<catalog, strategy, constraints, prompt>>

\* RoutingEngine(estimator, selector, catalog).route(request, constraints);
\* the engine refuses an empty catalog at construction.
Route ==
    /\ pc = "idle"
    /\ catalog # <<>>
    /\ LET r == route(strategy, catalog, Val(prompt), Val(constraints)) IN
        /\ decision' = r.decision
        /\ outcome' = r.kind
    /\ decisionSource' = "route"
    /\ pc' = "done"
    /\ UNCHANGED <<catalog, strategy, constraints, prompt>>

\* RoutingDecision(selected_model=catalog[i], alternatives_considered=...)
\* built by hand, with or without the selected object among the alternatives.
Construct ==
    /\ pc = "idle"
    /\ \E i \in DOMAIN catalog :
       \E keepSelected \in BOOLEAN :
          LET NotI(m) == m.oid # catalog[i].oid
              alts == IF keepSelected THEN catalog ELSE SelectSeq(catalog, NotI)
              r == RoutingDecision(catalog[i], catalog[i].pricing,
                                   [text |-> <<"manual">>, complexity |-> None],
                                   alts)
          IN  /\ decision' = r.decision
              /\ outcome' = r.kind
    /\ decisionSource' = "constructor"
    /\ pc' = "done"
    /\ UNCHANGED <<catalog, strategy, constraints, prompt>>

SelectFrame ==
    UNCHANGED <<config, provider_configs, forced_provider, setterResult, configureResult,
                middlewares, tracker, mwlog, tracks,
                provider_attempts, unforced_attempts, idx, attempts, last_error,
                invoked, created, response, cause, factoryKind, registry, cache,
                clientCalls, adapter, callers, cachemw>>

InitSelect ==
    /\ catalog \in Catalogs
    /\ strategy \in Strategies
    /\ constraints \in {Some(c) : c \in ConstraintChoices}
    /\ prompt \in {Some(HelloPrompt), Some(HardPrompt)}
    /\ decision = None
    /\ decisionSource = "none"
    /\ config = DefaultRouterConfig
    /\ provider_configs = EmptyMap
    /\ forced_provider = None
    /\ setterResult = None
    /\ configureResult = None
    /\ ChainIdle
    /\ pc = "idle"
    /\ provider_attempts = <<>>
    /\ unforced_attempts = <<>>
    /\ idx = 1
    /\ attempts = 0
    /\ last_error = None
    /\ invoked = <<>>
    /\ created = <<>>
    /\ response = None
    /\ cause = None
    /\ outcome = "none"
    /\ FactoryIdle
    /\ ProviderIdle
    /\ ObjectsIdle

NextSelect ==
    \/ Select /\ SelectFrame
    \/ Route /\ SelectFrame
    \/ Construct /\ SelectFrame

SpecSelect == InitSelect /\ [][NextSelect]_vars

\* ------------------------------------------------------------------------
\* Properties of selection (checked under SpecSelect)
\* ------------------------------------------------------------------------
\* The hard constraints, stated on one model.
WithinMaxCost(m, c)  == c.max_cost # None => m.pricing <= Val(c.max_cost)
MeetsMinQuality(m, c) ==
    c.min_quality # None =>
        QualityRaw(m.capabilities) * 100 >= Val(c.min_quality) * QUALITY_TOTAL
HasLatencyTag(m, c) ==
    (c.max_latency # None /\ Val(c.max_latency) <= 200) =>
        \E cap \in m.capabilities : cap \in {"low-latency", "realtime", "streaming"}

SatisfiesHardConstraints(m, c) ==
    WithinMaxCost(m, c) /\ MeetsMinQuality(m, c) /\ HasLatencyTag(m, c)

DecisionModels(d) == {d.selected_model} \cup Range(d.alternatives_considered)

ReturnedBySelect == decisionSource \in {"select", "route"} /\ outcome = "decision"

\* C7: whenever select (directly or through route) returns a decision, the
\* selected model and every alternative satisfy all hard constraints:
\* price <= max_cost, quality >= min_quality, and a low-latency-class tag
\* when max_latency <= 200.
C7_DecisionSatisfiesHardConstraints ==
    ReturnedBySelect =>
        \A m \in DecisionModels(Val(decision)) :
            SatisfiesHardConstraints(m, Val(constraints))

\* A decision with an alternative was returned under a tight latency bound
\* and a cost bound that removed part of the catalog.
C7_Witness ==
    /\ ReturnedBySelect
    /\ Val(constraints).max_cost # None
    /\ Val(constraints).max_latency = Some(100)
    /\ Cardinality(DecisionModels(Val(decision))) < Len(catalog)
    /\ Val(decision).alternatives_considered # <<>>

NoSurvivor ==
    \A i \in DOMAIN catalog : ~SatisfiesHardConstraints(catalog[i], Val(constraints))

\* C8: select fails with the no-suitable-model error whenever no catalog
\* model survives the constraint filter; it returns no decision (no default
\* model) in that case.
C8_NoSurvivorRaises ==
    (decisionSource \in {"select", "route"} /\ NoSurvivor) =>
        (outcome = "NoSuitableModelError" /\ decision = None)

\* select was applied to a non-empty catalog all of whose models were
\* filtered out, and raised.
C8_Witness ==
    /\ decisionSource = "select"
    /\ catalog # <<>>
    /\ NoSurvivor
    /\ outcome = "NoSuitableModelError"

\* C9: every RoutingDecision that exists, whether built by hand, by select
\* or by RoutingEngine.route, has a selected model that is value-equal to
\* none of its alternatives (a construction that would break this fails).
C9_SelectedNotAmongAlternatives ==
    decision # None =>
        \A i \in DOMAIN Val(decision).alternatives_considered :
            ~ModelEq(Val(decision).selected_model,
                     Val(decision).alternatives_considered[i])

\* A construction with the selected model among the alternatives was
\* attempted and failed validation.
C9_Witness ==
    /\ decisionSource = "constructor"
    /\ outcome = "ValidationError"
    /\ decision = None

\* ------------------------------------------------------------------------
\* SpecFactory: create and register_provider called directly on one factory
\* ------------------------------------------------------------------------
ApiKeys == {"key-a", "key-b"}

FactoryNames == {"gpt-4", "gpt-4o", "claude-3-opus", "custom-model-x", "mystery-1"}

\* Rules a caller registers at run time.
RuntimeRules == {Rule(CustomPattern, "_DummyProvider"), Rule(Gpt4Pattern, "_DummyProvider")}

\* One entry of the log of create calls; `rules` is the number of rules the
\* registry held when the call was made.
CreateEntry(model_name, api_key, r) ==
    [model_name |-> model_name, api_key |-> api_key, kind |-> r.kind,
     cls |-> r.cls, instance |-> r.instance, hit |-> r.hit,
     clientCalls |-> r.clientCalls, rules |-> Len(registry)]

\* factory.create(model_name, ProviderConfig(api_key=...))
Create ==
    /\ Len(created) < MaxCreates
    /\ \E model_name \in FactoryNames, api_key \in ApiKeys :
          LET r == create(registry, cache, clientCalls, model_name, api_key) IN
          /\ cache' = r.cache
          /\ clientCalls' = r.clientCalls
          /\ created' = Append(created, CreateEntry(model_name, api_key, r))
    /\ UNCHANGED <<factoryKind, registry>>

\* factory.register_provider(pattern, provider_class)
RegisterProvider ==
    /\ Len(registry) < Len(DefaultRegistry) + MaxRegister
    /\ \E rule \in RuntimeRules :
          registry' = register_provider(registry, rule.pattern, rule.cls)
    /\ UNCHANGED <<factoryKind, cache, clientCalls, created>>

FactoryFrame ==
    UNCHANGED <<routingVars, config, provider_configs, forced_provider,
                setterResult, configureResult, middlewares, tracker, mwlog, tracks,
                pc, provider_attempts, unforced_attempts, idx,
                attempts, last_error, invoked, response, cause, outcome, adapter, callers, cachemw>>

InitFactory ==
    RoutingIdle /\ RouterIdle /\ ChainIdle /\ FactoryIdle /\ ProviderIdle /\ ObjectsIdle

NextFactory ==
    \/ Create /\ FactoryFrame
    \/ RegisterProvider /\ FactoryFrame

SpecFactory == InitFactory /\ [][NextFactory]_vars

\* ------------------------------------------------------------------------
\* Properties of the instance cache (checked under SpecFactory)
\* ------------------------------------------------------------------------
Succeeded == {i \in DOMAIN created : created[i].kind = "provider"}

\* Number of create calls that built a new HTTP client for (cls, api_key).
ClientsBuiltFor(cls, api_key) ==
    Cardinality({i \in Succeeded : /\ created[i].cls = cls
                                   /\ created[i].api_key = api_key
                                   /\ ~created[i].hit})

\* C10: across any sequence of create calls on one factory, two calls that
\* resolve to the same provider type with the same credential return the
\* same instance and the HTTP-client factory runs once for that pair; two
\* calls with different credentials return distinct instances.
C10_CachePerTypeAndCredential ==
    /\ \A i, j \in Succeeded :
          /\ (created[i].cls = created[j].cls /\ created[i].api_key = created[j].api_key)
                => created[i].instance = created[j].instance
          /\ created[i].api_key # created[j].api_key
                => Val(created[i].instance).id # Val(created[j].instance).id
    /\ \A i \in Succeeded : ClientsBuiltFor(created[i].cls, created[i].api_key) = 1
    /\ clientCalls =
          Cardinality({<<created[i].cls, created[i].api_key>> : i \in Succeeded})

\* Two model names of one provider type were created with one credential
\* and a third call used another credential.
C10_Witness ==
    \E i, j, k \in Succeeded :
        /\ i < j /\ j < k
        /\ created[i].model_name # created[j].model_name
        /\ created[i].cls = created[j].cls
        /\ created[i].api_key = created[j].api_key
        /\ created[k].cls = created[i].cls
        /\ created[k].api_key # created[i].api_key
        /\ created[j].hit

\* The rules, among the first n of the registry, whose pattern matches.
MatchingRules(n, model_name) ==
    {k \in 1..n : model_name \in registry[k].pattern.accepts}

\* C11: create resolves a model name by the first rule, in registration
\* order, whose pattern matches, and fails with the no-provider-registered
\* error when none matches; a rule registered at run time comes after all
\* earlier rules and never overrides an earlier rule that also matches.
C11_FirstRegisteredRuleWins ==
    /\ SubSeq(registry, 1, Len(DefaultRegistry)) = DefaultRegistry
    /\ \A i \in DOMAIN created :
          LET e == created[i]
              hits == MatchingRules(e.rules, e.model_name)
          IN  /\ e.rules <= Len(registry)
              /\ IF hits = {}
                 THEN e.kind = "ProviderError" /\ e.instance = None
                 ELSE /\ e.kind = "provider"
                      /\ \E k \in hits :
                            /\ \A j \in hits : k <= j
                            /\ e.cls = Some(registry[k].cls)
                            /\ Val(e.instance).cls = registry[k].cls

\* With a run-time rule for "^gpt-4" registered, gpt-4 was still resolved
\* by the earlier OpenAI rule; another name matched no rule and failed.
C11_Witness ==
    /\ Len(registry) > Len(DefaultRegistry)
    /\ registry[Len(registry)] = Rule(Gpt4Pattern, "_DummyProvider")
    /\ \E i, j \in DOMAIN created :
          /\ created[i].model_name = "gpt-4"
          /\ created[i].rules = Len(registry)
          /\ created[i].cls = Some("OpenAIProvider")
          /\ created[j].kind = "ProviderError"

\* ------------------------------------------------------------------------
\* SpecConcurrent: threads sharing one ProviderFactory, each calling create
\* once; a thread switch can happen between any two statements of create
\* ------------------------------------------------------------------------
ConcurrentNames == {"gpt-4", "gpt-4o", "claude-3-opus", "mystery-1"}

\* Lines 31-34 of create: detect the class (or raise), compute the key, and
\* return the cached instance if the key is present.
Enter(t) ==
    /\ callers[t].pc = "idle"
    /\ \E model_name \in ConcurrentNames, api_key \in ApiKeys :
          LET detected == _detect_provider(registry, model_name)
              mine == [callers[t] EXCEPT !.model_name = Some(model_name),
                                         !.api_key = Some(api_key),
                                         !.cls = detected]
          IN  callers' = [callers EXCEPT ![t] =
                IF detected = None
                THEN [mine EXCEPT !.pc = "raised"]
                ELSE IF CacheKey(Val(detected), api_key) \in DOMAIN cache
                     THEN [mine EXCEPT !.pc = "returned",
                              !.result = Some(cache[CacheKey(Val(detected), api_key)])]
                     ELSE [mine EXCEPT !.pc = "missed"]]
    /\ UNCHANGED <<cache, clientCalls>>

\* Lines 36-40: build the HTTP client and construct the provider instance.
Build(t) ==
    /\ callers[t].pc = "missed"
    /\ clientCalls' = clientCalls + 1
    /\ callers' = [callers EXCEPT ![t].pc = "built",
                      ![t].instance =
                          Some(Instance(clientCalls + 1, Val(callers[t].cls),
                                        Val(callers[t].api_key),
                                        Val(callers[t].model_name)))]
    /\ UNCHANGED cache

\* Lines 41-42: store the instance under the key and return it.
Store(t) ==
    /\ callers[t].pc = "built"
    /\ LET key == CacheKey(Val(callers[t].cls), Val(callers[t].api_key)) IN
          cache' = [k \in DOMAIN cache \cup {key} |->
                       IF k = key THEN Val(callers[t].instance) ELSE cache[k]]
    /\ callers' = [callers EXCEPT ![t].pc = "returned",
                                  ![t].result = callers[t].instance]
    /\ UNCHANGED clientCalls

ConcurrentFrame ==
    UNCHANGED <<routingVars, routerVars, factoryKind, registry, providerVars, cachemw>>

InitConcurrent ==
    RoutingIdle /\ RouterIdle /\ ChainIdle /\ FactoryIdle /\ ProviderIdle /\ ObjectsIdle

NextConcurrent ==
    \E t \in Threads :
        \/ Enter(t) /\ ConcurrentFrame
        \/ Build(t) /\ ConcurrentFrame
        \/ Store(t) /\ ConcurrentFrame

SpecConcurrent == InitConcurrent /\ [][NextConcurrent]_vars

\* ------------------------------------------------------------------------
\* Properties of concurrent creation (checked under SpecConcurrent)
\* ------------------------------------------------------------------------
\* Threads whose create call has returned a provider.
Served == {t \in Threads : callers[t].pc = "returned"}

KeyOf(t) == CacheKey(Val(callers[t].cls), Val(callers[t].api_key))

\* C25: concurrent callers creating providers for the same new (provider
\* type, credential) pair do not corrupt the cache: under every
\* interleaving all callers for one pair receive the same instance, and the
\* cache holds for that pair the instance that was handed to them.
C25_ConcurrentCreateKeepsOneInstance ==
    /\ \A t, u \in Served :
          KeyOf(t) = KeyOf(u) => Val(callers[t].result).id = Val(callers[u].result).id
    /\ \A t \in Served :
          /\ KeyOf(t) \in DOMAIN cache
          /\ cache[KeyOf(t)].id = Val(callers[t].result).id

\* ------------------------------------------------------------------------
\* SpecProvider: execute_request calls on one provider adapter
\* ------------------------------------------------------------------------
\* provider.complete(request) -> execute_request(request): the loop starts.
ExecuteRequest ==
    /\ adapter.pc \in {"idle", "done"}
    /\ adapter' = [AdapterIdle(adapter.max_retries) EXCEPT
                      !.backoff_factor = adapter.backoff_factor, !.pc = "loop"]

\* One pass through the body of `for attempt in range(max_retries + 1)`,
\* or, when the range is used up, the raise after the loop (line 112).
Iterate ==
    /\ adapter.pc = "loop"
    /\ IF adapter.attempt > adapter.max_retries
       THEN adapter' = [adapter EXCEPT !.pc = "done",
                                       !.result = "Failed to execute request"]
       ELSE \E raw \in ApiOutcomes :
              LET called == [adapter EXCEPT !.calls = Append(@, raw)]
                  what == Disposition(adapter.attempt, adapter.max_retries, raw)
              IN  adapter' =
                    CASE what = "return" ->
                            [called EXCEPT !.pc = "done", !.result = "response"]
                      [] what = "raise" ->
                            [called EXCEPT !.pc = "done", !.result = raw]
                      [] what = "wrap" ->
                            [called EXCEPT !.pc = "done",
                                           !.result = "Unexpected provider failure"]
                      [] OTHER ->
                            [called EXCEPT
                                !.delays = Append(@, _backoff_delay(adapter.backoff_factor,
                                                                    adapter.attempt)),
                                !.attempt = @ + 1]

\* ProviderConfig.backoff_factor values explored: 0.5 s, 1 s and 2.5 s.
BackoffFactors == {DefaultBackoffFactor, 10, 25}

ProviderFrame == UNCHANGED <<routingVars, routerVars, factoryVars, objectVars>>

InitProvider ==
    /\ RoutingIdle /\ RouterIdle /\ ChainIdle /\ FactoryIdle /\ ObjectsIdle
    /\ \E max_retries \in 0..MaxProviderRetries, backoff_factor \in BackoffFactors :
          adapter = [AdapterIdle(max_retries) EXCEPT !.backoff_factor = backoff_factor]

NextProvider ==
    \/ ExecuteRequest /\ ProviderFrame
    \/ Iterate /\ ProviderFrame

SpecProvider == InitProvider /\ [][NextProvider]_vars

\* ------------------------------------------------------------------------
\* Properties of execute_request (checked under SpecProvider)
\* ------------------------------------------------------------------------
Successes == {i \in DOMAIN adapter.calls : adapter.calls[i] = "ok"}

\* C12: one execute_request makes at most max_retries + 1 raw API calls and
\* makes no further call after the first one that succeeds, whose response
\* it returns.
C12_BoundedCallsStopAtSuccess ==
    /\ Len(adapter.calls) <= adapter.max_retries + 1
    /\ \A i \in Successes :
          /\ i = Len(adapter.calls)
          /\ adapter.pc = "done"
          /\ adapter.result = "response"
    /\ adapter.result = "response" => Successes # {}

\* The last allowed call succeeded after every earlier one had failed with
\* a transient error.
C12_Witness ==
    /\ adapter.pc = "done"
    /\ adapter.max_retries >= 2
    /\ Len(adapter.calls) = adapter.max_retries + 1
    /\ adapter.result = "response"

AllCalls(kind) ==
    adapter.calls # <<>> /\ \A i \in DOMAIN adapter.calls : adapter.calls[i] = kind

\* C13: when every raw call of one execute_request fails with a rate-limit
\* error (or every one with an unavailable error), the adapter makes
\* exactly max_retries + 1 calls and raises that same typed error; the
\* generic "Failed to execute request" error is never raised.
C13_TypedErrorAfterAllRetries ==
    /\ adapter.result # "Failed to execute request"
    /\ \A kind \in Transient :
          (adapter.pc = "done" /\ AllCalls(kind)) =>
              /\ Len(adapter.calls) = adapter.max_retries + 1
              /\ adapter.result = kind

\* Three or more unavailable errors in a row used up the retries.
C13_Witness ==
    /\ adapter.pc = "done"
    /\ adapter.max_retries >= 2
    /\ AllCalls("ProviderUnavailableError")
    /\ adapter.result = "ProviderUnavailableError"

GenericFailures == {i \in DOMAIN adapter.calls : adapter.calls[i] = "ProviderError"}

\* C23: a raw API call that fails with a generic ProviderError (neither
\* rate-limit nor unavailable) ends execute_request at once: it is the last
\* call, the same error is raised, and no backoff sleep follows it,
\* whatever retry budget remains.
C23_GenericErrorEndsAtOnce ==
    \A i \in GenericFailures :
        /\ i = Len(adapter.calls)
        /\ adapter.pc = "done"
        /\ adapter.result = "ProviderError"
        /\ Len(adapter.delays) = i - 1

\* The very first call failed with a generic error while two or more
\* retries were still allowed.
C23_Witness ==
    /\ adapter.pc = "done"
    /\ adapter.max_retries >= 2
    /\ adapter.calls = <<"ProviderError">>
    /\ adapter.delays = <<>>
    /\ adapter.result = "ProviderError"

\* C24: inside one execute_request the k-th sleep (k = 0 for the first
\* retry) lasts backoff_factor * 2^k; exactly one sleep happens between two
\* consecutive API calls, and none after the final failed call or after a
\* success.
C24_ExponentialBackoffBetweenCalls ==
    /\ \A k \in DOMAIN adapter.delays :
          adapter.delays[k] = adapter.backoff_factor * 2^(k - 1)
    /\ adapter.pc = "loop" => Len(adapter.delays) = Len(adapter.calls)
    /\ (adapter.pc = "done" /\ adapter.calls # <<>>) =>
          Len(adapter.delays) = Len(adapter.calls) - 1

\* Three sleeps of 1 s, 2 s and 4 s separated four calls, the last of which
\* failed for good.
C24_Witness ==
    /\ adapter.pc = "done"
    /\ adapter.backoff_factor = 10
    /\ Len(adapter.calls) = 4
    /\ adapter.delays = <<10, 20, 40>>
    /\ adapter.result \in Transient

\* ------------------------------------------------------------------------
\* SpecChain: MiddlewareChain.execute called directly on one chain
\* ------------------------------------------------------------------------
\* A prompt ValidationMiddleware rejects for its length.
LongPrompt == Prompt(MAX_PROMPT_CHARS + 1, MAX_PROMPT_CHARS + 1, FALSE, 0, 0, 0)

ChainPrompts == {HelloPrompt, HardPrompt, LongPrompt}

\* chain.execute(request, handler), the handler returning or raising.
Execute ==
    /\ cachemw.handled < MaxExecutes
    /\ \E p \in ChainPrompts, handlerReturns \in BOOLEAN :
          LET r == execute(middlewares, p, handlerReturns)
              reached == Len(RequestPhase(middlewares, p, 1, <<>>).log)
              requested == AfterRequestPhase(cachemw.objects, middlewares, p, reached)
              handled == IF r.kind = "ValueError" THEN cachemw.handled
                         ELSE cachemw.handled + 1
              resp == HandlerResponse(handled)
          IN
          /\ prompt' = Some(p)
          /\ mwlog' = r.log
          /\ tracks' = r.tracks
          /\ outcome' = r.kind
          /\ response' = IF r.kind = "response" THEN Some(resp) ELSE None
          /\ cachemw' =
                [objects |-> IF r.kind = "response"
                             THEN AfterResponsePhase(requested, middlewares, resp)
                             ELSE requested,
                 handled |-> handled]
    /\ UNCHANGED <<catalog, strategy, constraints, decision, decisionSource,
                   config, provider_configs, forced_provider, setterResult,
                   configureResult, middlewares, tracker, pc, provider_attempts,
                   unforced_attempts, idx, attempts, last_error, invoked, created,
                   cause, factoryVars, adapter, callers>>

InitChain ==
    /\ RoutingIdle /\ RouterIdle /\ FactoryIdle /\ ProviderIdle /\ ObjectsIdle
    /\ middlewares \in SeqsUpTo(MiddlewareKinds, MaxChain)
    /\ tracker = FALSE
    /\ mwlog = <<>>
    /\ tracks = 0

NextChain == Execute

SpecChain == InitChain /\ [][NextChain]_vars

\* ------------------------------------------------------------------------
\* Properties of the middleware chain (checked under SpecChain)
\* ------------------------------------------------------------------------
\* Positions of the log that hold the given kind of entry.
LogPositions(name) == {k \in DOMAIN mwlog : mwlog[k][1] = name}

\* C16: MiddlewareChain.execute runs process_request of every middleware in
\* registration order, then the handler once, then process_response of
\* every middleware in reverse registration order.
C16_ChainOrder ==
    LET n == Len(middlewares) IN
    /\ outcome = "response" =>
          /\ Len(mwlog) = 2 * n + 1
          /\ \A k \in 1..n :
                mwlog[k] = <<"process_request", k, middlewares[k]>>
          /\ mwlog[n + 1] = HandlerRun
          /\ \A k \in 1..n :
                mwlog[n + 1 + k] = <<"process_response", n + 1 - k, middlewares[n + 1 - k]>>
    /\ Cardinality(LogPositions("handler")) <= 1
    /\ outcome # "response" => LogPositions("process_response") = {}

\* A chain of three different middlewares was run around a handler that
\* returned.
C16_Witness ==
    /\ outcome = "response"
    /\ Len(middlewares) = 3
    /\ Cardinality(Range(middlewares)) = 3
    /\ Len(mwlog) = 7

\* ------------------------------------------------------------------------
\* Router (core/router.py)
\* ------------------------------------------------------------------------
\* _map_strategy_to_enum: Some(enum) or None (ValueError).
_map_strategy_to_enum(name) ==
    CASE name = "balanced"          -> Some("balanced")
      [] name = "cost_optimized"    -> Some("cost_biased")
      [] name = "quality_optimized" -> Some("quality_biased")
      [] name = "latency_optimized" -> Some("latency_biased")
      [] OTHER                      -> None

DEFAULT_MAX_COST == 1000000
DEFAULT_MAX_LATENCY == 30000

\* _build_constraints: the constraints, or the error raised when the strategy
\* name is unsupported or RoutingConstraints rejects the values.
_build_constraints(cfg, max_cost, max_latency, min_quality, strategyArg) ==
    LET strategy_name == IF strategyArg # None THEN Val(strategyArg)
                         ELSE cfg.default_strategy
        routed == _map_strategy_to_enum(strategy_name)
        safe_max_cost == IF max_cost # None THEN max_cost ELSE Some(DEFAULT_MAX_COST)
        safe_max_latency == IF max_latency # None THEN max_latency
                            ELSE Some(DEFAULT_MAX_LATENCY)
    IN  IF routed = None THEN [kind |-> "ValueError", constraints |-> None]
        ELSE LET c == RoutingConstraints(safe_max_cost, safe_max_latency,
                                         min_quality, Val(routed))
             IN  IF ConstraintsValid(c) THEN [kind |-> "ok", constraints |-> Some(c)]
                 ELSE [kind |-> "ValidationError", constraints |-> None]

\* The factory objects a router is wired with: the repository's
\* ProviderFactory (no infer_provider_key method) and the stub of
\* tests/unit/test_router.py (lookup tables filled by register()).
FactoryKinds == {"ProviderFactory", "_ProviderFactoryStub"}

\* _ProviderFactoryStub.provider_keys after the tests' register() calls.
StubProviderKeys(model_name) ==
    CASE model_name \in {"gpt-4", "gpt-4o", "gpt-3.5"} -> Some("openai")
      [] model_name = "claude-3-opus"                   -> Some("anthropic")
      [] model_name = "gemini-1.5-pro"                  -> Some("google")
      [] OTHER                                          -> None

\* self._provider_factory.infer_provider_key(name) under try/except:
\* Some(key), or None when the call raises (no such method on
\* ProviderFactory; KeyError in the stub).
infer_provider_key(kind, model_name) ==
    IF kind = "ProviderFactory" THEN None ELSE StubProviderKeys(model_name)

\* _ProviderFactoryStub.create: providers[model_name], no caching state.
StubCreate(cch, calls, model_name, api_key) ==
    IF StubProviderKeys(model_name) = None
    THEN [kind |-> "KeyError", instance |-> None, cls |-> None,
          cache |-> cch, clientCalls |-> calls, hit |-> FALSE]
    ELSE [kind |-> "provider",
          instance |-> Some(Instance(0, "_FakeProvider", "", model_name)),
          cls |-> Some("_FakeProvider"),
          cache |-> cch, clientCalls |-> calls, hit |-> FALSE]

\* self._provider_factory.create(model_name, provider_config)
FactoryCreate(kind, reg, cch, calls, model_name, api_key) ==
    IF kind = "ProviderFactory" THEN create(reg, cch, calls, model_name, api_key)
    ELSE StubCreate(cch, calls, model_name, api_key)

\* A candidate of the walk.
Candidate(model_name, provider_key) == <<model_name, provider_key>>

\* provider_attempts as first built (lines 133-137).
InitialAttempts(d) ==
    LET initial_candidates == <<d.selected_model>> \o d.alternatives_considered
    IN  [i \in DOMAIN initial_candidates |->
            Candidate(initial_candidates[i].model_name, initial_candidates[i].provider)]

\* The loop over config.fallback_models (lines 139-148); seen_models is
\* always the set of entries of the list built so far.
RECURSIVE AppendFallbacks(_, _, _)
AppendFallbacks(kind, attemptsSoFar, fallback_models) ==
    IF fallback_models = <<>> THEN attemptsSoFar
    ELSE LET fallback_model == Head(fallback_models)
             provider_key == infer_provider_key(kind, fallback_model)
         IN  IF provider_key = None
             THEN AppendFallbacks(kind, attemptsSoFar, Tail(fallback_models))
             ELSE LET candidate == Candidate(fallback_model, Val(provider_key))
                  IN  IF candidate \in Range(attemptsSoFar)
                      THEN AppendFallbacks(kind, attemptsSoFar, Tail(fallback_models))
                      ELSE AppendFallbacks(kind, Append(attemptsSoFar, candidate),
                                           Tail(fallback_models))

\* Variant of the reordering that keeps only the preferred entries.
ForcedOrder_DropRest(forced, attemptList) ==
    IF forced = None THEN attemptList
    ELSE LET Preferred(a) == a[2] = Val(forced) IN SelectSeq(attemptList, Preferred)

\* The forced-provider reordering (lines 150-161).
ForcedOrder(forced, attemptList) ==
    IF forced = None THEN attemptList
    ELSE LET Preferred(a) == a[2] = Val(forced)
             Rest(a) == a[2] # Val(forced)
         IN  SelectSeq(attemptList, Preferred) \o SelectSeq(attemptList, Rest)

\* Variant of the budget test that is off by one.
BudgetLeft_OffByOne(attemptCount, max_retries) == attemptCount <= max_retries

\* Variant of the loop test that always lets the first candidate through.
BudgetLeft_AtLeastOnce(attemptCount, max_retries) ==
    attemptCount = 0 \/ attemptCount < max_retries

\* Variant of the loop test that never runs out of budget.
BudgetLeft_Unlimited(attemptCount, max_retries) == TRUE

\* not (attempts >= self._config.max_retries)
BudgetLeft(attemptCount, max_retries) == attemptCount < max_retries

\* last_error = exc
NextLastError(previous, exc) == Some(exc)

\* Variant of the loop step that skips the entry after a failed one.
NextIndex_SkipOne(i) == i + 2

\* The for loop moves to the next entry.
NextIndex(i) == i + 1

\* Variant of the skip that counts the skipped entry as an attempt.
AttemptsAfterSkip_Counted(attemptCount) == attemptCount + 1

\* `continue` at line 170: the attempts counter is left as it is.
AttemptsAfterSkip(attemptCount) == attemptCount

\* Variant of the setter's test that accepts every name.
SetterAccepts_Anything(provider_name, configs) == TRUE

\* The test of the default_provider setter (lines 93-97).
SetterAccepts(provider_name, configs) ==
    provider_name = None \/ Val(provider_name) \in DOMAIN configs

\* The error a provider's complete raised for the entry at `position`.
ProviderFailure(position, candidate) ==
    [kind |-> "ProviderError", position |-> position, candidate |-> candidate]

\* One entry of the log of provider.complete calls; api_calls is the
\* number of raw API calls the provider made for it.
Invocation(position, candidate, ok, model_used, error, api_calls) ==
    [position |-> position, candidate |-> candidate, ok |-> ok,
     model_used |-> model_used, error |-> error, api_calls |-> api_calls]

\* provider.complete(request) on the provider the factory handed out: the
\* ways it can end.  A BaseProvider runs execute_request; the fake
\* providers of the stub factory answer or raise at once.
ProviderRuns(kind, max_retries) ==
    IF kind = "ProviderFactory" THEN Runs(0, max_retries)
    ELSE {[api_calls |-> 1, ok |-> TRUE], [api_calls |-> 1, ok |-> FALSE]}

\* ------------------------------------------------------------------------
\* Spec: one router, its complete calls, and its two mutators
\* ------------------------------------------------------------------------
\* Catalogs the routing engine is wired with: the container's default one
\* and two custom ones (an unregistered model name; two value-equal entries).
DefaultCatalog == <<DEFAULT_CHAT_MODEL, DEFAULT_ANTHROPIC_MODEL, DEFAULT_GEMINI_MODEL>>
CustomCatalog  == <<Gpt35Model, MysteryModel, DEFAULT_CHAT_MODEL>>
TwinCatalog    == <<DEFAULT_ANTHROPIC_MODEL, DEFAULT_CHAT_MODEL, Gpt4Twin>>

RouterCatalogs == {DefaultCatalog, CustomCatalog, TwinCatalog}

\* provider key -> api_key of its ProviderConfig.
OpenAIAndAnthropic == [k \in {"openai", "anthropic"} |->
                          IF k = "openai" THEN "key-a" ELSE "key-b"]
OpenAIAndCustom    == [k \in {"openai", "custom"} |-> "key-a"]

ProviderConfigChoices == {OpenAIAndAnthropic, OpenAIAndCustom}

FallbackNames == {"gpt-3.5", "claude-3-opus", "mystery-1"}

\* DIContainer._build_middleware_chain with enable_cache off.
_build_middleware_chain(enable_analytics, hasTracker) ==
    <<"ValidationMiddleware", "LoggingMiddleware">> \o
    (IF hasTracker /\ enable_analytics THEN <<"AnalyticsMiddleware">> ELSE <<>>)

\* How a router is put together: by DIContainer.create_router with
\* analytics enabled or disabled (the tracker exists only when enabled), or
\* by hand as the tests do, with the factory stub, a tracker and two
\* recording middlewares.
Wirings ==
    {[factoryKind |-> "ProviderFactory", enable_analytics |-> TRUE, tracker |-> TRUE,
      middlewares |-> _build_middleware_chain(TRUE, TRUE)],
     [factoryKind |-> "ProviderFactory", enable_analytics |-> FALSE, tracker |-> FALSE,
      middlewares |-> _build_middleware_chain(FALSE, FALSE)],
     [factoryKind |-> "_ProviderFactoryStub", enable_analytics |-> TRUE, tracker |-> TRUE,
      middlewares |-> <<"_RecordingMiddleware", "_RecordingMiddleware">>]}

\* Arguments of complete().
CallPrompts    == {BlankPrompt, HelloPrompt}
CallMaxCost    == {None, Some(12)}
CallMaxLatency == {None, Some(100)}
CallMinQuality == {None, Some(150)}
CallStrategy   == {None, Some("quality_optimized"), Some("bogus")}

\* Locals of a call that has not reached the walk.
NoWalk ==
    /\ provider_attempts' = <<>>
    /\ unforced_attempts' = <<>>
    /\ idx' = 1
    /\ attempts' = 0
    /\ last_error' = None
    /\ invoked' = <<>>
    /\ created' = <<>>
    /\ response' = None
    /\ cause' = None

Persistent == <<catalog, strategy, config, provider_configs, forced_provider,
                middlewares, tracker, factoryKind, registry, adapter, callers, cachemw>>

\* complete(): Request or constraints construction raises (lines 57-67).
CompleteRejected ==
    /\ pc = "idle"
    /\ \E p \in CallPrompts, max_cost \in CallMaxCost, max_latency \in CallMaxLatency,
          min_quality \in CallMinQuality, strategyArg \in CallStrategy :
          LET built == _build_constraints(config, max_cost, max_latency,
                                          min_quality, strategyArg)
              req == RequestPhase(middlewares, p, 1, <<>>)
              accepted == RequestValid(p) /\ built.kind = "ok"
          IN
          /\ ~accepted \/ req.raised # None
          /\ prompt' = Some(p)
          /\ constraints' = IF accepted THEN built.constraints ELSE None
          /\ outcome' = IF ~RequestValid(p) THEN "ValidationError"
                        ELSE IF built.kind # "ok" THEN built.kind
                        ELSE Val(req.raised)
          /\ mwlog' = IF accepted THEN req.log ELSE <<>>
    /\ tracks' = 0
    /\ decision' = None
    /\ decisionSource' = "none"
    /\ NoWalk
    /\ pc' = "done"
    /\ UNCHANGED <<Persistent, setterResult, configureResult, cache, clientCalls>>

\* complete(): the handler's route() raises (line 70).
CompleteUnroutable ==
    /\ pc = "idle"
    /\ \E p \in CallPrompts, max_cost \in CallMaxCost, max_latency \in CallMaxLatency,
          min_quality \in CallMinQuality, strategyArg \in CallStrategy :
          LET built == _build_constraints(config, max_cost, max_latency,
                                          min_quality, strategyArg) IN
          /\ RequestValid(p) /\ built.kind = "ok"
          /\ RequestPhase(middlewares, p, 1, <<>>).raised = None
          /\ mwlog' = Append(RequestPhase(middlewares, p, 1, <<>>).log, HandlerRun)
          /\ LET r == route(strategy, catalog, p, Val(built.constraints)) IN
             /\ r.kind # "decision"
             /\ outcome' = r.kind
          /\ prompt' = Some(p)
          /\ constraints' = built.constraints
    /\ decision' = None
    /\ decisionSource' = "route"
    /\ NoWalk
    /\ tracks' = 0
    /\ pc' = "done"
    /\ UNCHANGED <<Persistent, setterResult, configureResult, cache, clientCalls>>

\* complete(): routing succeeded; _execute_with_fallback builds the ordered
\* candidate list (lines 133-164) and the walk begins.
CompleteRouted ==
    /\ pc = "idle"
    /\ \E p \in CallPrompts, max_cost \in CallMaxCost, max_latency \in CallMaxLatency,
          min_quality \in CallMinQuality, strategyArg \in CallStrategy :
          LET built == _build_constraints(config, max_cost, max_latency,
                                          min_quality, strategyArg) IN
          /\ RequestValid(p) /\ built.kind = "ok"
          /\ RequestPhase(middlewares, p, 1, <<>>).raised = None
          /\ mwlog' = Append(RequestPhase(middlewares, p, 1, <<>>).log, HandlerRun)
          /\ LET r == route(strategy, catalog, p, Val(built.constraints)) IN
             /\ r.kind = "decision"
             /\ decision' = r.decision
             /\ LET withFallbacks ==
                        AppendFallbacks(factoryKind, InitialAttempts(Val(r.decision)),
                                        config.fallback_models)
                IN  /\ unforced_attempts' = withFallbacks
                    /\ provider_attempts' = ForcedOrder(forced_provider, withFallbacks)
          /\ prompt' = Some(p)
          /\ constraints' = built.constraints
    /\ decisionSource' = "route"
    /\ idx' = 1
    /\ attempts' = 0
    /\ last_error' = None
    /\ invoked' = <<>>
    /\ created' = <<>>
    /\ response' = None
    /\ cause' = None
    /\ outcome' = "none"
    /\ tracks' = 0
    /\ pc' = "walk"
    /\ UNCHANGED <<Persistent, setterResult, configureResult, cache, clientCalls>>

\* The loop has an entry to visit and budget to visit it.
Visiting ==
    /\ pc = "walk"
    /\ idx <= Len(provider_attempts)
    /\ BudgetLeft(attempts, config.max_retries)

CurrentKey == provider_attempts[idx][2]
CurrentModel == provider_attempts[idx][1]

CurrentCreate ==
    FactoryCreate(factoryKind, registry, cache, clientCalls, CurrentModel,
                  provider_configs[CurrentKey])

WalkFrame == UNCHANGED <<routingVars, Persistent, setterResult, configureResult,
                         provider_attempts, unforced_attempts>>

\* No provider configuration for the entry's key: continue (lines 168-170).
SkipUnconfigured ==
    /\ Visiting
    /\ CurrentKey \notin DOMAIN provider_configs
    /\ idx' = NextIndex(idx)
    /\ attempts' = AttemptsAfterSkip(attempts)
    /\ UNCHANGED <<mwlog, tracks>>
    /\ UNCHANGED <<last_error, invoked, created, response, cause,
                   outcome, pc, cache, clientCalls>>
    /\ WalkFrame

\* factory.create raises; nothing catches it inside complete (line 171).
CreateRaises ==
    /\ Visiting
    /\ CurrentKey \in DOMAIN provider_configs
    /\ CurrentCreate.kind # "provider"
    /\ created' = Append(created, CreateEntry(CurrentModel, provider_configs[CurrentKey],
                                              CurrentCreate))
    /\ outcome' = CurrentCreate.kind
    /\ cause' = None
    /\ pc' = "done"
    /\ UNCHANGED <<idx, attempts, last_error, invoked, response, cache, clientCalls,
                   mwlog, tracks>>
    /\ WalkFrame

\* provider.complete returns (line 173): the handler returns that response,
\* the chain runs its response hooks, the router tracks the call (lines
\* 75-76) and complete returns.
InvokeSucceeds ==
    /\ Visiting
    /\ CurrentKey \in DOMAIN provider_configs
    /\ CurrentCreate.kind = "provider"
    /\ \E run \in ProviderRuns(factoryKind, adapter.max_retries) :
       LET made == CurrentCreate
           model_used == Val(made.instance).model_name
       IN  /\ run.ok
           /\ created' = Append(created, CreateEntry(CurrentModel,
                                                     provider_configs[CurrentKey], made))
           /\ cache' = made.cache
           /\ clientCalls' = made.clientCalls
           /\ invoked' = Append(invoked, Invocation(idx, provider_attempts[idx], TRUE,
                                                    Some(model_used), None,
                                                    run.api_calls))
           /\ response' = Some([model_used |-> model_used])
    /\ mwlog' = mwlog \o ResponsePhase(middlewares)
    /\ tracks' = ChainTracks(middlewares) + RouterTracks(tracker, config)
    /\ outcome' = "response"
    /\ cause' = None
    /\ pc' = "done"
    /\ UNCHANGED <<idx, attempts, last_error>>
    /\ WalkFrame

\* provider.complete raises: record the error, count the attempt, continue
\* (lines 174-177).
InvokeFails ==
    /\ Visiting
    /\ CurrentKey \in DOMAIN provider_configs
    /\ CurrentCreate.kind = "provider"
    /\ \E run \in ProviderRuns(factoryKind, adapter.max_retries) :
       LET made == CurrentCreate
           exc == ProviderFailure(idx, provider_attempts[idx])
       IN  /\ ~run.ok
           /\ created' = Append(created, CreateEntry(CurrentModel,
                                                     provider_configs[CurrentKey], made))
           /\ cache' = made.cache
           /\ clientCalls' = made.clientCalls
           /\ invoked' = Append(invoked, Invocation(idx, provider_attempts[idx], FALSE,
                                                    None, Some(exc), run.api_calls))
           /\ last_error' = NextLastError(last_error, exc)
    /\ attempts' = attempts + 1
    /\ idx' = NextIndex(idx)
    /\ UNCHANGED <<response, cause, outcome, pc, mwlog, tracks>>
    /\ WalkFrame

\* The loop ends (list exhausted, or budget spent at line 166-167):
\* raise RuntimeError("All provider attempts failed") from last_error.
RaiseAllFailed ==
    /\ pc = "walk"
    /\ idx > Len(provider_attempts) \/ ~BudgetLeft(attempts, config.max_retries)
    /\ outcome' = "AllProviderAttemptsFailed"
    /\ cause' = last_error
    /\ pc' = "done"
    /\ UNCHANGED <<idx, attempts, last_error, invoked, created, response, cache,
                   clientCalls, mwlog, tracks>>
    /\ WalkFrame

\* The call (complete, or the setter) is over and its frame is gone; the
\* router waits for the next one.
Finish ==
    /\ pc \in {"done", "assigned"}
    /\ pc' = "idle"
    /\ constraints' = None
    /\ prompt' = None
    /\ decision' = None
    /\ decisionSource' = "none"
    /\ NoWalk
    /\ outcome' = "none"
    /\ setterResult' = None
    /\ configureResult' = None
    /\ mwlog' = <<>>
    /\ tracks' = 0
    /\ UNCHANGED <<Persistent, cache, clientCalls>>

\* router.default_provider = provider_name
SetDefaultProvider ==
    /\ pc = "idle"
    /\ \E provider_name \in {None} \cup {Some(k) : k \in Provider} :
          IF SetterAccepts(provider_name, provider_configs)
          THEN /\ forced_provider' = provider_name
               /\ setterResult' = Some([arg |-> provider_name, raised |-> FALSE,
                                        before |-> forced_provider])
          ELSE /\ forced_provider' = forced_provider
               /\ setterResult' = Some([arg |-> provider_name, raised |-> TRUE,
                                        before |-> forced_provider])
    /\ pc' = "assigned"
    /\ UNCHANGED <<middlewares, tracker, mwlog, tracks>>
    /\ UNCHANGED <<routingVars, config, configureResult, provider_configs, provider_attempts,
                   unforced_attempts, idx, attempts, last_error, invoked, created,
                   response, cause, outcome, factoryVars, adapter, callers, cachemw>>

\* router.configure_fallback(models): the router's new configuration, and
\* `previous`, the object it held before, as it is after the call.
ConfigureFallback ==
    /\ pc = "idle"
    /\ \E models \in SeqsUpTo(FallbackNames, MaxFallback) :
          LET r == replace(config, models) IN
          /\ config' = r.new
          /\ configureResult' = Some([models |-> models, before |-> config,
                                      previous |-> r.previous,
                                      forced_before |-> forced_provider,
                                      provider_configs_before |-> provider_configs])
    /\ pc' = "assigned"
    /\ UNCHANGED <<middlewares, tracker, mwlog, tracks>>
    /\ UNCHANGED <<routingVars, provider_configs, forced_provider, setterResult,
                   provider_attempts, unforced_attempts, idx, attempts, last_error,
                   invoked, created, response, cause, outcome, factoryVars, adapter, callers, cachemw>>

\* Router.__init__: the router and its collaborators, before any call.
InitRouter ==
    /\ catalog \in RouterCatalogs
    /\ strategy \in Strategies
    /\ constraints = None
    /\ prompt = None
    /\ decision = None
    /\ decisionSource = "none"
    /\ \E w \in Wirings, max_retries \in 0..MaxRetries :
          /\ w.factoryKind \in FactoryKinds
          /\ factoryKind = w.factoryKind
          /\ config = RouterConfig(strategy, w.enable_analytics, <<>>, max_retries)
          /\ middlewares = w.middlewares
          /\ tracker = w.tracker
    /\ mwlog = <<>>
    /\ tracks = 0
    /\ provider_configs \in ProviderConfigChoices
    /\ forced_provider = None
    /\ setterResult = None
    /\ configureResult = None
    /\ pc = "idle"
    /\ provider_attempts = <<>>
    /\ unforced_attempts = <<>>
    /\ idx = 1
    /\ attempts = 0
    /\ last_error = None
    /\ invoked = <<>>
    /\ created = <<>>
    /\ response = None
    /\ cause = None
    /\ outcome = "none"
    /\ registry = DefaultRegistry
    /\ cache = EmptyMap
    /\ clientCalls = 0
    /\ ObjectsIdle

\* Providers configured with ProviderConfig(max_retries=0): one raw API call
\* per invocation.
Init == InitRouter /\ adapter = AdapterIdle(0)

Next ==
    \/ CompleteRejected
    \/ CompleteUnroutable
    \/ CompleteRouted
    \/ SkipUnconfigured
    \/ CreateRaises
    \/ InvokeSucceeds
    \/ InvokeFails
    \/ RaiseAllFailed
    \/ Finish
    \/ SetDefaultProvider
    \/ ConfigureFallback

Spec == Init /\ [][Next]_vars

\* ------------------------------------------------------------------------
\* Properties of the fallback walk (checked under Spec)
\* ------------------------------------------------------------------------
\* A call that got a routing decision (it is walking or has walked).
Walked == pc \in {"walk", "done"} /\ decision # None

IsConfigured(a) == a[2] \in DOMAIN provider_configs

\* The entries of a candidate list that have a provider configuration.
ConfiguredOf(attemptList) == SelectSeq(attemptList, IsConfigured)

InvokedCandidates == [i \in DOMAIN invoked |-> invoked[i].candidate]

\* (model name, provider key) of the selected model, then of each alternative.
DecisionPairs ==
    LET d == Val(decision) IN
    <<<<d.selected_model.model_name, d.selected_model.provider>>>> \o
    [i \in DOMAIN d.alternatives_considered |->
        <<d.alternatives_considered[i].model_name, d.alternatives_considered[i].provider>>]

\* C1: in any single complete call the number of provider invocations never
\* exceeds the configured max_retries, whatever the candidate list and the
\* pattern of provider successes and failures.
C1_InvocationsWithinBudget == Len(invoked) <= config.max_retries

\* A call used its whole budget of at least two invocations while
\* candidates were still left in the list.
C1_Witness ==
    /\ pc = "done"
    /\ outcome = "AllProviderAttemptsFailed"
    /\ config.max_retries >= 2
    /\ Len(invoked) = config.max_retries
    /\ idx <= Len(provider_attempts)

\* The walk part shared by both readings of C2: the response is that of the
\* last invocation, the only one that succeeded, and the invocations are the
\* first configured entries of `order`, each once, in order.
WalkedInOrder(order) ==
    LET n == Len(invoked) IN
    /\ n >= 1
    /\ invoked[n].ok
    /\ response = Some([model_used |-> Val(invoked[n].model_used)])
    /\ \A k \in 1..(n - 1) : ~invoked[k].ok
    /\ n <= Len(ConfiguredOf(order))
    /\ InvokedCandidates = SubSeq(ConfiguredOf(order), 1, n)

\* C2 as stated: the candidates are invoked in the order selected model,
\* alternatives in their order (then the appended fallbacks), and complete
\* returns the response of the first one whose call succeeds.
C2_AsStated_DecisionOrder ==
    (pc = "done" /\ outcome = "response") =>
        /\ SubSeq(unforced_attempts, 1, Len(DecisionPairs)) = DecisionPairs
        /\ WalkedInOrder(unforced_attempts)

\* C2 (amended): the candidates are invoked strictly in the order of the
\* final candidate list: selected model, alternatives in their order, then
\* the appended fallbacks, with the entries of a forced provider moved to the
\* front when an override is set.  complete returns the response of the first
\* candidate whose call succeeds; every configured candidate before it was
\* invoked once and failed; none after it is invoked.
C2_WalkInListOrder ==
    (pc = "done" /\ outcome = "response") =>
        /\ forced_provider = None =>
              SubSeq(provider_attempts, 1, Len(DecisionPairs)) = DecisionPairs
        /\ WalkedInOrder(provider_attempts)

\* A response came from the third invocation, after two failures and a
\* skipped entry.
C2_Witness ==
    /\ pc = "done"
    /\ outcome = "response"
    /\ Len(invoked) >= 2
    /\ invoked[Len(invoked)].position > Len(invoked)

\* The provider key a model name belongs to (the Provider tag its catalog
\* entries carry), None for a name of no known family.
ProviderKeyOf(model_name) ==
    CASE model_name \in {"gpt-4", "gpt-4o", "gpt-3.5"} -> Some("openai")
      [] model_name = "claude-3-opus"                   -> Some("anthropic")
      [] model_name = "gemini-1.5-pro"                  -> Some("google")
      [] OTHER                                          -> None

\* The configured fallback models the claim is about: not among the
\* decision's candidates, provider key configured.
EligibleFallback(i) ==
    LET name == config.fallback_models[i]
        key == ProviderKeyOf(name)
    IN  /\ key # None
        /\ Val(key) \in DOMAIN provider_configs
        /\ <<name, Val(key)>> \notin Range(DecisionPairs)

\* C3: a configured fallback model that is not among the decision's
\* candidates and whose provider key is configured is appended after the
\* routing-derived candidates, and is invoked when every earlier candidate
\* has failed and retry budget is left.
C3_FallbackAppendedAndTried ==
    Walked =>
        \A i \in DOMAIN config.fallback_models :
            EligibleFallback(i) =>
                LET cand == <<config.fallback_models[i],
                              Val(ProviderKeyOf(config.fallback_models[i]))>>
                IN  /\ \E k \in (Len(DecisionPairs) + 1)..Len(unforced_attempts) :
                          unforced_attempts[k] = cand
                    /\ (pc = "done" /\ outcome = "AllProviderAttemptsFailed"
                        /\ attempts < config.max_retries)
                          => \E k \in DOMAIN invoked : invoked[k].candidate = cand

\* The error of the last invoked provider, None when none was invoked.
LastInvokedError ==
    IF invoked = <<>> THEN None ELSE invoked[Len(invoked)].error

\* C4: when a complete call that reached the walk ends without a successful
\* provider call, it fails with the single aggregate "All provider attempts
\* failed" error whose cause is the error raised by the last invoked
\* provider.
C4_AggregateErrorWithLastCause ==
    (pc = "done" /\ decision # None /\ outcome # "response") =>
        /\ outcome = "AllProviderAttemptsFailed"
        /\ cause = LastInvokedError

\* Number of positions of a list holding candidate a.
Count(attemptList, a) == Cardinality({i \in DOMAIN attemptList : attemptList[i] = a})

FromForced(a) == a[2] = Val(forced_provider)
NotFromForced(a) == a[2] # Val(forced_provider)

\* C5: a forced provider only reorders the candidate list: its entries come
\* first, the order inside each of the two groups is kept, and the multiset
\* of candidates is that of the list without the override.
C5_ForcedProviderOnlyReorders ==
    (Walked /\ forced_provider # None) =>
        /\ \A a \in Range(unforced_attempts) \cup Range(provider_attempts) :
              Count(provider_attempts, a) = Count(unforced_attempts, a)
        /\ \A i, j \in DOMAIN provider_attempts :
              (i < j /\ FromForced(provider_attempts[j])) => FromForced(provider_attempts[i])
        /\ SelectSeq(provider_attempts, FromForced) = SelectSeq(unforced_attempts, FromForced)
        /\ SelectSeq(provider_attempts, NotFromForced)
              = SelectSeq(unforced_attempts, NotFromForced)

\* The override moved two entries in front of an entry of another provider
\* that routing had ranked first.
C5_Witness ==
    /\ Walked
    /\ forced_provider # None
    /\ Len(SelectSeq(unforced_attempts, FromForced)) >= 2
    /\ NotFromForced(unforced_attempts[1])
    /\ provider_attempts # unforced_attempts

\* C6: the forced-provider override is always unset or a key of the
\* provider configurations; assigning an unknown name raises and leaves the
\* previous override in place.
C6_ForcedProviderIsConfigured ==
    /\ forced_provider = None \/ Val(forced_provider) \in DOMAIN provider_configs
    /\ setterResult # None =>
          LET r == Val(setterResult) IN
          (r.arg # None /\ Val(r.arg) \notin DOMAIN provider_configs) =>
              (r.raised /\ forced_provider = r.before)

\* An unknown name was assigned while an override was set, and was refused.
C6_Witness ==
    /\ setterResult # None
    /\ Val(setterResult).raised
    /\ Val(setterResult).before # None
    /\ forced_provider = Val(setterResult).before

\* No candidate list was built, no provider constructed or invoked.
NothingAttempted ==
    /\ provider_attempts = <<>>
    /\ invoked = <<>>
    /\ created = <<>>
    /\ response = None

\* The errors of argument validation and of routing.
RejectionErrors == {"ValidationError", "ValueError", "NoSuitableModelError"}

\* C14: invalid input to complete (blank prompt, unsupported strategy name,
\* constraint values that fail validation) and a routing failure (no model
\* satisfies the constraints) are raised to the caller at once: no provider
\* is invoked and no configured fallback model is attempted.
C14_RejectedWithoutProviderCall ==
    /\ (prompt # None /\ Val(prompt).stripped = 0) =>
          (pc = "done" /\ outcome = "ValidationError" /\ NothingAttempted)
    /\ (pc \in {"walk", "done"} /\ constraints # None /\ NoSurvivor) =>
          (pc = "done" /\ outcome = "NoSuitableModelError" /\ NothingAttempted)
    /\ outcome \in RejectionErrors =>
          (pc = "done" /\ decision = None /\ NothingAttempted)

\* Routing failed on a router whose fallback list names a model of a
\* configured provider; the fallback was not tried.
C14_Witness ==
    /\ pc = "done"
    /\ outcome = "NoSuitableModelError"
    /\ catalog # <<>>
    /\ "gpt-3.5" \in Range(config.fallback_models)
    /\ "openai" \in DOMAIN provider_configs
    /\ NothingAttempted

\* C15: configure_fallback(models) replaces the router's configuration by a
\* new value whose fallback list equals models; every other configuration
\* field, the forced-provider override and the provider configurations are
\* unchanged, and the configuration object held before is not mutated.
C15_ConfigureFallbackReplacesConfig ==
    configureResult # None =>
        LET r == Val(configureResult) IN
        /\ config.fallback_models = r.models
        /\ config.default_strategy = r.before.default_strategy
        /\ config.enable_analytics = r.before.enable_analytics
        /\ config.max_retries = r.before.max_retries
        /\ r.previous = r.before
        /\ forced_provider = r.forced_before
        /\ provider_configs = r.provider_configs_before

\* A non-empty fallback list was replaced by a different non-empty one on a
\* router with a forced provider and a non-default retry budget.
C15_Witness ==
    /\ configureResult # None
    /\ Val(configureResult).before.fallback_models # <<>>
    /\ Val(configureResult).models # <<>>
    /\ Val(configureResult).models # Val(configureResult).before.fallback_models
    /\ config.max_retries # DefaultMaxRetries
    /\ forced_provider # None

\* C17: with analytics enabled and a tracker configured, the tracker gets
\* exactly one track call for each complete call that returns a response
\* and none for a call that fails, so over any sequence of calls the number
\* of track calls equals the number of responses returned.
C17_OneTrackPerResponse ==
    (tracker /\ config.enable_analytics) =>
        /\ pc = "done" /\ outcome = "response" => tracks = 1
        /\ ~(pc = "done" /\ outcome = "response") => tracks = 0

\* Positions of the candidate list the loop has gone past.
Passed == 1..(Min(idx, Len(provider_attempts) + 1) - 1)

SkippedPositions == {k \in Passed : ~IsConfigured(provider_attempts[k])}

FailedInvocations == {k \in DOMAIN invoked : ~invoked[k].ok}

\* C18: a candidate whose provider key has no provider configuration is
\* skipped: its provider is never constructed or invoked and the attempt
\* count is not increased, so skipped candidates use no retry budget.
C18_SkippedCandidatesCostNothing ==
    Walked =>
        /\ \A k \in DOMAIN invoked :
              /\ IsConfigured(invoked[k].candidate)
              /\ invoked[k].position \notin SkippedPositions
        /\ Len(created) <= Cardinality(Passed \ SkippedPositions) + 1
        /\ attempts = Cardinality(FailedInvocations)
        /\ (pc = "walk" /\ outcome = "none") =>
              attempts = Cardinality(Passed \ SkippedPositions)

\* The first candidate was skipped and the whole budget was then spent on
\* later candidates.
C18_Witness ==
    /\ Walked
    /\ pc = "done"
    /\ config.max_retries >= 1
    /\ 1 \in SkippedPositions
    /\ Len(invoked) = config.max_retries
    /\ attempts = config.max_retries

\* C19: within one complete call no (model name, provider key) pair is
\* invoked twice, for every routing decision and every fallback list.
C19_NoCandidateInvokedTwice ==
    \A i, j \in DOMAIN invoked :
        i # j => invoked[i].candidate # invoked[j].candidate

\* Ways a walk that met a factory failure may go on or end.
WalkOutcomes == {"none", "response", "AllProviderAttemptsFailed"}

\* C20: during the walk a failure to obtain a candidate's provider from the
\* factory is handled like any other failure of that candidate: the error
\* is recorded, the attempt is counted, and the walk goes on with the next
\* candidate.
C20_FactoryFailureIsAnAttempt ==
    \A k \in DOMAIN created :
        created[k].kind # "provider" =>
            /\ outcome \in WalkOutcomes
            /\ attempts >= 1
            /\ last_error # None

\* ------------------------------------------------------------------------
\* Further properties of selection (checked under SpecSelect)
\* ------------------------------------------------------------------------
\* The catalog positions whose model passes the constraint filter.
Survivors ==
    {i \in DOMAIN catalog : PassesConstraints(catalog[i], Val(constraints))}

\* C21: select (directly or through route) returns a decision whenever at
\* least one catalog model passes the constraint filter, for every catalog,
\* value-equal entries and top-score ties included; every survivor other
\* than the selected object is then listed among the alternatives.
C21_DecisionWheneverSurvivor ==
    (decisionSource \in {"select", "route"} /\ Survivors # {}) =>
        /\ outcome = "decision"
        /\ decision # None
        /\ \A i \in Survivors :
              \/ catalog[i].oid = Val(decision).selected_model.oid
              \/ \E k \in DOMAIN Val(decision).alternatives_considered :
                    Val(decision).alternatives_considered[k].oid = catalog[i].oid

\* The decision's models in rank order: selected first, then alternatives.
Ranked(d) == <<d.selected_model>> \o d.alternatives_considered

\* The strategy score select gave a model in this call.
ScoreOf(m) == score_model(strategy, m, estimate(Val(prompt)), Val(constraints))

\* Position of a model object in the catalog.
CatalogIndex(m) == CHOOSE i \in DOMAIN catalog : catalog[i].oid = m.oid

\* C22: in a decision returned by select, the selected model is a survivor
\* of maximum strategy score, the alternatives are exactly the remaining
\* survivors in descending score order, and survivors of equal score keep
\* their catalog order (the earliest of several top-scored models is the
\* selected one).
C22_RankedByScoreStable ==
    ReturnedBySelect =>
        LET ranked == Ranked(Val(decision)) IN
        /\ Len(ranked) = Cardinality(Survivors)
        /\ {ranked[k].oid : k \in DOMAIN ranked} = {catalog[i].oid : i \in Survivors}
        /\ \A i \in Survivors : ScoreOf(catalog[i]) <= ScoreOf(ranked[1])
        /\ \A k \in 1..(Len(ranked) - 1) :
              \/ ScoreOf(ranked[k]) > ScoreOf(ranked[k + 1])
              \/ /\ ScoreOf(ranked[k]) = ScoreOf(ranked[k + 1])
                 /\ CatalogIndex(ranked[k]) < CatalogIndex(ranked[k + 1])

\* Two models of different value tied for the top score, the earlier one in
\* the catalog was selected, and a model of lower score follows them.
C22_Witness ==
    /\ ReturnedBySelect
    /\ LET ranked == Ranked(Val(decision)) IN
        /\ Len(ranked) = 3
        /\ ScoreOf(ranked[1]) = ScoreOf(ranked[2])
        /\ ~ModelEq(ranked[1], ranked[2])
        /\ ScoreOf(ranked[2]) > ScoreOf(ranked[3])
        /\ CatalogIndex(ranked[3]) < CatalogIndex(ranked[1])

\* ------------------------------------------------------------------------
\* Further properties of the provider factory (checked under SpecFactory)
\* ------------------------------------------------------------------------
\* C26: the provider that create(model_name, config) returns performs its
\* calls for model_name: the model name its responses report as model_used
\* is the name create was called with, whatever create calls came before.
C26_ProviderServesRequestedModel ==
    \A i \in Succeeded :
        Val(created[i].instance).model_name = created[i].model_name

\* ------------------------------------------------------------------------
\* Further properties of Router.complete (checked under Spec)
\* ------------------------------------------------------------------------
\* The strategy object DIContainer._select_strategy builds for the name a
\* RoutingStrategy member stands for.
NamedStrategy(member) ==
    IF member = "quality_biased" THEN "quality_optimized" ELSE "cost_optimized"

\* C27: the strategy override passed to complete decides how models are
\* scored for that call: the decision the walk starts from is the one the
\* named strategy produces for the call's catalog, prompt and constraints.
C27_OverrideDecidesScoring ==
    (Walked /\ Val(constraints).strategy \in {"cost_biased", "quality_biased"}) =>
        LET r == route(NamedStrategy(Val(constraints).strategy), catalog,
                       Val(prompt), Val(constraints))
        IN  r.kind = "decision" => decision = r.decision

RECURSIVE SumApiCalls(_)
SumApiCalls(log) ==
    IF log = <<>> THEN 0
    ELSE log[Len(log)].api_calls + SumApiCalls(SubSeq(log, 1, Len(log) - 1))

\* SpecLive: routers built by the container over the two catalogs, with no
\* retry budget or the largest one, providers that retry inside the
\* adapter, and the thread that runs complete never suspended for ever.
InitLive ==
    /\ InitRouter
    /\ \E max_retries \in 0..MaxAdapterRetries : adapter = AdapterIdle(max_retries)
    /\ catalog \in {DefaultCatalog, CustomCatalog}
    /\ strategy = "cost_optimized"
    /\ factoryKind = "ProviderFactory"
    /\ tracker
    /\ provider_configs = OpenAIAndCustom
    /\ config.max_retries \in {0, MaxRetries}

SpecLive == InitLive /\ [][Next]_vars /\ WF_vars(Next)

\* The raw calls of one complete call stay within the product of the two
\* retry budgets, and the walk stays inside the candidate list.
ApiCallsWithinBudget ==
    /\ SumApiCalls(invoked) <= config.max_retries * (adapter.max_retries + 1)
    /\ \A k \in DOMAIN invoked : invoked[k].api_calls \in 1..(adapter.max_retries + 1)
    /\ idx <= Len(provider_attempts) + 1
    /\ Len(invoked) + Cardinality(SkippedPositions) <= Len(provider_attempts)

\* C28: every complete call terminates with a response or an error, and
\* the raw provider API calls it causes number at most
\* (router max_retries) * (adapter max_retries + 1); no candidate is
\* retried without bound.
C28_TerminatesWithinBudget ==
    /\ []ApiCallsWithinBudget
    /\ (pc = "walk") ~> (pc = "done" /\ outcome # "none")

\* Every allowed invocation used every raw call its adapter allows and the
\* call ended with the aggregate error.
C28_Witness ==
    /\ pc = "done"
    /\ outcome = "AllProviderAttemptsFailed"
    /\ config.max_retries = MaxRetries
    /\ adapter.max_retries = MaxAdapterRetries
    /\ SumApiCalls(invoked) = MaxRetries * (MaxAdapterRetries + 1)

\* C29: with the router's max_retries at 0, complete never constructs or
\* invokes any provider, not even the selected model's; it never returns a
\* response, and every call that reaches the fallback walk fails with the
\* aggregate error, which then carries no underlying cause.
C29_ZeroBudgetAlwaysFails ==
    config.max_retries = 0 =>
        /\ invoked = <<>>
        /\ created = <<>>
        /\ response = None
        /\ pc = "done" => outcome \in {"AllProviderAttemptsFailed"} \cup RejectionErrors
        /\ (pc = "done" /\ Walked) =>
              /\ outcome = "AllProviderAttemptsFailed"
              /\ cause = None
              /\ last_error = None

\* A call with no retry budget was routed to a configured candidate and
\* failed without trying it.
C29_Witness ==
    /\ config.max_retries = 0
    /\ pc = "done"
    /\ Walked
    /\ provider_attempts # <<>>
    /\ IsConfigured(provider_attempts[1])
    /\ outcome = "AllProviderAttemptsFailed"

\* ------------------------------------------------------------------------
\* Further properties of the middleware chain (checked under SpecChain)
\* ------------------------------------------------------------------------
CachingPositions == {k \in DOMAIN middlewares : middlewares[k] = "CachingMiddleware"}

\* C30: a cache hit never short-circuits execution: for every request that
\* passes all process_request hooks the handler runs exactly once, whether
\* or not a cache already holds a response for the request's key; the
\* response returned is the handler's, not the cached one, and every
\* CachingMiddleware's entry for that key is overwritten with it.
C30_CacheHitNeverShortCircuits ==
    /\ outcome \in {"response", "HandlerError"} =>
          Cardinality(LogPositions("handler")) = 1
    /\ outcome = "response" =>
          /\ response = Some(HandlerResponse(cachemw.handled))
          /\ \A k \in CachingPositions :
                /\ Val(prompt) \in DOMAIN cachemw.objects[k].cache
                /\ cachemw.objects[k].cache[Val(prompt)] = Val(response)
                /\ cachemw.objects[k].cached_response # response

\* The same prompt went through a caching chain again: the cache was hit,
\* the handler ran once more, and its new response replaced the cached one.
C30_Witness ==
    /\ outcome = "response"
    /\ cachemw.handled >= 2
    /\ \E k \in CachingPositions :
          /\ cachemw.objects[k].cache_hit
          /\ cachemw.objects[k].cached_response # None
          /\ Val(cachemw.objects[k].cached_response).serial < Val(response).serial
          /\ cachemw.objects[k].cache[Val(prompt)] = Val(response)

====
